---------------------------- MODULE Spec2Model ----------------------------
(***************************************************************************)
(* Hybrid retrieval and re-ranking pipeline of the functiomed chatbot      *)
(* backend: query normalizer, BM25 keyword index, fusion, cross-encoder    *)
(* re-ranker and the retrieve() orchestrator.                              *)
(*                                                                         *)
(* Text is a sequence of characters, each a string; an accented letter is  *)
(* written mark-then-letter ("a_uml" a-umlaut, "e_acute" e-acute, "a_grave" a-grave,       *)
(* "a_circ" a-circumflex, "c_ced" c-cedilla, "sz" sharp s).  Scores are fixed-point    *)
(* integers: a score s in [0,1] is the integer 1000*s (ScoreOne).          *)
(***************************************************************************)
EXTENDS Integers, Sequences, FiniteSets, TLC

VARIABLES
    nRaw,       \* normalizer: the raw query handed to normalize()
    nResult,    \* normalizer: result of normalize(nRaw)
    nAgain,     \* normalizer: result of normalize(nResult.normalized)
    argsortTies,\* the order np.argsort gives equal keys on this build
    bm25,       \* the BM25 instance: k1, b and the index data
    bResults,   \* BM25: the list the last search() returned
    bCall,      \* BM25: the arguments of the last search() call
    bRepeat,    \* BM25: what the same search() call returned when repeated
    rCall,      \* re-ranker: the arguments of the last rerank() call
    rOut,       \* re-ranker: what the last rerank() call returned
    svc,        \* RetrievalService: the mode flags and components __init__ set
    tReq,       \* retrieve(): the arguments and the environment of the call
    tOut,       \* retrieve(): the outcome of the call and what it invoked
    writer,     \* index()/load_index(): the assignments still to run
    reader,     \* a search() running beside the writer: position and locals
    fCall,      \* fusion: the arguments of the last fusion call
    fOut,       \* fusion: the scored entries and the list the call returned
    pFile,      \* persistence: the index file save_index() wrote, if any
    pLoaded,    \* persistence: the fresh instance load_index() filled, if any
    cCalls,     \* concurrent retrieve() calls: position and locals of each caller
    gGlobal,    \* lazy getter: the module-level instance variable
    gThreads,   \* lazy getter: position and locals of each first caller
    qCall,      \* vector search: the arguments of the last search() call
    qOut        \* vector search: its backend calls and its outcome

normVars == <<nRaw, nResult, nAgain>>
bm25Vars == <<argsortTies, bm25, bResults, bCall, bRepeat>>
rerankVars == <<rCall, rOut>>
retrieveVars == <<svc, tReq, tOut>>
rebuildVars == <<writer, reader>>
fusionVars == <<fCall, fOut>>
persistVars == <<pFile, pLoaded>>
callVars == <<cCalls>>
getterVars == <<gGlobal, gThreads>>
qdrantVars == <<qCall, qOut>>
vars == <<nRaw, nResult, nAgain, argsortTies, bm25, bResults, bCall, bRepeat,
          rCall, rOut, svc, tReq, tOut, writer, reader, fCall, fOut,
          pFile, pLoaded, cCalls, gGlobal, gThreads, qCall, qOut>>

(***************************************************************************)
(* Generic sequence helpers                                                *)
(***************************************************************************)
Range(s) == {s[i] : i \in 1..Len(s)}

Take(s, n) == SubSeq(s, 1, IF n < Len(s) THEN n ELSE Len(s))

Drop(s, n) == SubSeq(s, n + 1, Len(s))

RECURSIVE Concat(_)
Concat(ss) == IF ss = <<>> THEN <<>> ELSE Head(ss) \o Concat(Tail(ss))

(***************************************************************************)
(* Character classes of the regular expressions in query_normalizer.py     *)
(***************************************************************************)
\* \s and str.strip(): whitespace
WhitespaceChars == {" ", "\t", "\n"}

\* [?.!,;:]
PunctChars == {"?", ".", "!", ",", ";", ":"}

\* [.,;:!]  (leading/trailing punctuation that is stripped; "?" is kept)
EdgePunctChars == {".", ",", ";", ":", "!"}

\* the character class of German umlauts and sharp s
UmlautChars == {"a_uml", "o_uml", "u_uml", "A_uml", "O_uml", "U_uml", "sz"}

\* the character class of French accented letters
FrenchAccentChars ==
    {"a_grave", "a_circ", "a_uml", "e_acute", "e_grave", "e_circ", "e_uml", "i_uml", "i_circ", "o_circ", "u_grave", "u_circ", "u_uml", "y_uml", "c_ced",
     "A_grave", "A_circ", "A_uml", "E_acute", "E_grave", "E_circ", "E_uml", "I_uml", "I_circ", "O_circ", "U_grave", "U_circ", "U_uml", "Y_uml", "C_ced"}

UpperChars ==
    <<"A", "B", "C", "D", "E", "F", "G", "H", "I", "J", "K", "L", "M", "N",
      "O", "P", "Q", "R", "S", "T", "U", "V", "W", "X", "Y", "Z", "A_uml", "O_uml",
      "U_uml", "A_grave", "A_circ", "E_acute", "E_grave", "E_circ", "E_uml", "I_uml", "I_circ", "O_circ", "U_grave", "U_circ", "Y_uml", "C_ced">>

LowerChars ==
    <<"a", "b", "c", "d", "e", "f", "g", "h", "i", "j", "k", "l", "m", "n",
      "o", "p", "q", "r", "s", "t", "u", "v", "w", "x", "y", "z", "a_uml", "o_uml",
      "u_uml", "a_grave", "a_circ", "e_acute", "e_grave", "e_circ", "e_uml", "i_uml", "i_circ", "o_circ", "u_grave", "u_circ", "y_uml", "c_ced">>

DigitChars == {"0", "1", "2", "3", "4", "5", "6", "7", "8", "9"}

\* \w : letters, digits and the underscore
WordChars == Range(UpperChars) \cup Range(LowerChars) \cup DigitChars \cup {"sz", "_"}

\* str.lower() on one character
LowerChar(c) ==
    IF c \in Range(UpperChars)
    THEN LowerChars[CHOOSE i \in 1..Len(UpperChars) : UpperChars[i] = c]
    ELSE c

\* str.lower()
Lower(t) == [i \in 1..Len(t) |-> LowerChar(t[i])]

\* number of leading characters of t that lie in S
RECURSIVE PrefixIn(_, _)
PrefixIn(t, S) ==
    IF t # <<>> /\ Head(t) \in S THEN 1 + PrefixIn(Tail(t), S) ELSE 0

\* number of leading characters of t that lie outside S
RECURSIVE PrefixNotIn(_, _)
PrefixNotIn(t, S) ==
    IF t # <<>> /\ Head(t) \notin S THEN 1 + PrefixNotIn(Tail(t), S) ELSE 0

\* number of trailing characters of t that lie in S
RECURSIVE SuffixIn(_, _)
SuffixIn(t, S) ==
    IF t # <<>> /\ t[Len(t)] \in S
    THEN 1 + SuffixIn(SubSeq(t, 1, Len(t) - 1), S)
    ELSE 0

\* str.strip()
Strip(t) ==
    LET l == PrefixIn(t, WhitespaceChars)
    IN  IF l = Len(t) THEN <<>>
        ELSE SubSeq(t, l + 1, Len(t) - SuffixIn(t, WhitespaceChars))

(***************************************************************************)
(* QueryNormalizer                                                         *)
(***************************************************************************)
german_indicators ==
    { <<"d","e","r">>, <<"d","i","e">>, <<"d","a","s">>,
      <<"u","n","d">>, <<"i","s","t">>, <<"v","o","n">>,
      <<"f","u_uml","r">>, <<"m","i","t">>, <<"a","u","f">>,
      <<"e","i","n","e">>, <<"e","i","n","e","m">>, <<"e","i","n","e","n">>,
      <<"w","e","l","c","h","e">>, <<"w","e","l","c","h","e","r">>,
      <<"w","e","l","c","h","e","s">>,
      <<"f","u","n","k","t","i","o","n","i","e","r","t">>,
      <<"b","i","e","t","e","t">>, <<"k","o","s","t","e","t">>,
      <<"k","o_uml","n","n","e","n">>, <<"m","o_uml","c","h","t","e">> }

english_indicators ==
    { <<"t","h","e">>, <<"a","n","d">>, <<"i","s">>,
      <<"f","o","r">>, <<"w","i","t","h">>, <<"w","h","a","t">>,
      <<"h","o","w">>, <<"c","a","n">>, <<"d","o","e","s">>,
      <<"w","h","i","c","h">>, <<"w","h","e","r","e">>, <<"w","h","e","n">>,
      <<"w","h","y">>, <<"o","f","f","e","r">>, <<"c","o","s","t">>,
      <<"p","r","o","v","i","d","e">> }

french_indicators ==
    { <<"l","e">>, <<"l","a">>, <<"l","e","s">>,
      <<"u","n">>, <<"u","n","e">>, <<"d","e","s">>,
      <<"e","t">>, <<"e","s","t">>, <<"d","e">>,
      <<"p","o","u","r">>, <<"a","v","e","c">>, <<"q","u","e">>,
      <<"q","u","i">>, <<"q","u","o","i">>, <<"c","o","m","m","e","n","t">>,
      <<"q","u","a","n","d">>, <<"o","u_grave">>, <<"p","o","u","r","q","u","o","i">>,
      <<"o","f","f","r","e">>, <<"c","o","u_circ","t">>, <<"f","o","u","r","n","i","r">>,
      <<"q","u","e","l">>, <<"q","u","e","l","l","e">> }

\* re.sub of whitespace runs by one space
RECURSIVE CollapseWhitespace(_)
CollapseWhitespace(t) ==
    IF t = <<>> THEN <<>>
    ELSE IF Head(t) \in WhitespaceChars
         THEN <<" ">> \o CollapseWhitespace(Drop(t, PrefixIn(t, WhitespaceChars)))
         ELSE <<Head(t)>> \o CollapseWhitespace(Tail(t))

\* _clean_whitespace
CleanWhitespace(t) == Strip(CollapseWhitespace(t))

\* re.sub of punctuation runs: a run of two or more punctuation
\* marks is replaced by the last mark of the run (the last capture of group 1)
RECURSIVE CollapsePunctuation(_)
CollapsePunctuation(t) ==
    IF t = <<>> THEN <<>>
    ELSE LET run == PrefixIn(t, PunctChars)
         IN  IF run >= 2
             THEN <<t[run]>> \o CollapsePunctuation(Drop(t, run))
             ELSE <<Head(t)>> \o CollapsePunctuation(Tail(t))

\* _clean_punctuation
CleanPunctuation(t) ==
    LET collapsed == CollapsePunctuation(t)
        noLead    == Drop(collapsed, PrefixIn(collapsed, EdgePunctChars))
    IN  SubSeq(noLead, 1, Len(noLead) - SuffixIn(noLead, EdgePunctChars))

\* re.findall of words: the maximal runs of word characters
RECURSIVE FindWords(_)
FindWords(t) ==
    IF t = <<>> THEN {}
    ELSE LET run == PrefixIn(t, WordChars)
         IN  IF run > 0
             THEN {SubSeq(t, 1, run)} \cup FindWords(Drop(t, run))
             ELSE FindWords(Tail(t))

Max3(a, b, c) ==
    LET ab == IF a >= b THEN a ELSE b
    IN  IF ab >= c THEN ab ELSE c

\* _detect_language; None is "none"
DetectLanguage(t) ==
    LET words         == FindWords(Lower(t))
        german_count  == Cardinality(words \cap german_indicators)
        english_count == Cardinality(words \cap english_indicators)
        french_count  == Cardinality(words \cap french_indicators)
        max_count     == Max3(german_count, english_count, french_count)
    IN  IF max_count = 0
        THEN IF Range(t) \cap UmlautChars # {} THEN "DE"
             ELSE IF Range(t) \cap FrenchAccentChars # {} THEN "FR"
             ELSE "none"
        ELSE IF german_count = max_count THEN "DE"
        ELSE IF english_count = max_count THEN "EN"
        ELSE IF french_count = max_count THEN "FR"
        ELSE "none"

\* normalize steps 1 and 2: whitespace cleanup, then punctuation cleanup
CleanedText(query) == CleanPunctuation(CleanWhitespace(query))

\* the result of a normalize() call that raised ValueError
InvalidQuery == [ok |-> FALSE]

\* the mutant of Normalize that rejects the empty query only
NormalizeBlankAccepted(query, max_length) ==
    IF query = <<>>
    THEN InvalidQuery
    ELSE LET cleaned  == CleanedText(query)
             language == DetectLanguage(cleaned)
             stripped == Strip(cleaned)
             final    == IF Len(stripped) > max_length
                         THEN Strip(Take(stripped, max_length))
                         ELSE stripped
         IN  [ok                |-> TRUE,
              original          |-> query,
              normalized        |-> final,
              detected_language |-> language,
              char_count        |-> Len(final),
              was_modified      |-> final # Strip(query)]

\* normalize(query) of a QueryNormalizer built with max_length
Normalize(query, max_length) ==
    IF query = <<>> \/ Strip(query) = <<>>
    THEN InvalidQuery
    ELSE LET cleaned  == CleanedText(query)
             language == DetectLanguage(cleaned)
             stripped == Strip(cleaned)
             final    == IF Len(stripped) > max_length
                         THEN Strip(Take(stripped, max_length))
                         ELSE stripped
         IN  [ok                |-> TRUE,
              original          |-> query,
              normalized        |-> final,
              detected_language |-> language,
              char_count        |-> Len(final),
              was_modified      |-> final # Strip(query)]

(***************************************************************************)
(* BM25 keyword index (bm25_search.py)                                     *)
(***************************************************************************)
\* one unit of a score in [0,1]: scores are integers in 0..ScoreOne
ScoreOne == 1000

\* one unit of a natural logarithm: Ln gives LnScale * ln(x), rounded
LnScale == 10000

\* terms of the series LnTerms sums
LnTerms == 12

RECURSIVE SumSeq(_)
SumSeq(s) == IF s = <<>> THEN 0 ELSE Head(s) + SumSeq(Tail(s))

RECURSIVE AtanhSeries(_, _, _)
AtanhSeries(pow, ySquared, k) ==
    IF k > LnTerms THEN 0
    ELSE (pow \div (2 * k + 1))
         + AtanhSeries((pow * ySquared) \div LnScale, ySquared, k + 1)

\* math.log(num / den) in units of 1/LnScale, by ln x = 2 atanh((x-1)/(x+1))
Ln(num, den) ==
    LET y == ((num - den) * LnScale) \div (num + den)
    IN  2 * AtanhSeries(y, (y * y) \div LnScale, 0)

\* BM25.__init__ defaults: k1 = 1.5, b = 0.75, as fractions
DefaultK1 == [num |-> 3, den |-> 2]

DefaultB == [num |-> 3, den |-> 4]

\* BM25.__init__: an instance with an empty index
NewBM25(k1, b) ==
    [k1 |-> k1, b |-> b,
     corpus |-> <<>>, corpus_metadata |-> <<>>, doc_freqs |-> <<>>,
     idf |-> <<>>, doc_len |-> <<>>,
     avgdl |-> [num |-> 0, den |-> 1], num_docs |-> 0]

\* the characters _tokenize keeps: word characters, whitespace and the hyphen
TokenKeepChars == WordChars \cup WhitespaceChars \cup {"-"}

\* str.split(): the maximal runs of non-whitespace characters, in order
RECURSIVE Split(_)
Split(t) ==
    IF t = <<>> THEN <<>>
    ELSE IF Head(t) \in WhitespaceChars THEN Split(Tail(t))
    ELSE LET run == PrefixNotIn(t, WhitespaceChars)
         IN  <<SubSeq(t, 1, run)>> \o Split(Drop(t, run))

\* str.isdigit()
IsDigit(t) == t # <<>> /\ \A i \in 1..Len(t) : t[i] \in DigitChars

SelectTokens(tokens) == SelectSeq(tokens, LAMBDA t : Len(t) > 2 /\ ~IsDigit(t))

\* _tokenize
Tokenize(text) ==
    LET lowered == Lower(text)
        spaced  == [i \in 1..Len(lowered) |->
                       IF lowered[i] \in TokenKeepChars THEN lowered[i] ELSE " "]
    IN  SelectTokens(Split(spaced))

\* collections.Counter(tokens)
Counter(tokens) ==
    [t \in Range(tokens) |-> Cardinality({i \in 1..Len(tokens) : tokens[i] = t})]

\* idf of a term found in freq of num_docs documents:
\* math.log((num_docs - freq + 0.5) / (freq + 0.5) + 1.0)
Idf(num_docs, freq) == Ln(2 * num_docs + 2, 2 * freq + 1)

\* index(corpus, metadata) as one step: the instance after indexing
\* (the caller guarantees Len(corpus) = Len(metadata), else ValueError)
Index(self, corpus, metadata) ==
    LET n         == Len(corpus)
        tokens    == [i \in 1..n |-> Tokenize(corpus[i])]
        doc_freqs == [i \in 1..n |-> Counter(tokens[i])]
        doc_len   == [i \in 1..n |-> Len(tokens[i])]
        terms     == UNION {DOMAIN doc_freqs[i] : i \in 1..n}
        df        == [t \in terms |->
                         Cardinality({i \in 1..n : t \in DOMAIN doc_freqs[i]})]
    IN  [k1 |-> self.k1, b |-> self.b,
         corpus |-> corpus, corpus_metadata |-> metadata,
         doc_freqs |-> doc_freqs,
         idf |-> [t \in terms |-> Idf(n, df[t])],
         doc_len |-> doc_len,
         avgdl |-> IF n > 0 THEN [num |-> SumSeq(doc_len), den |-> n]
                   ELSE [num |-> 0, den |-> 1],
         num_docs |-> n]

\* a filter value is a list [any |-> set] or a single value [value |-> v]
IsList(v) == "any" \in DOMAIN v

\* the mutant of MatchesFilters that accepts a document as soon as one
\* filter field matches
MatchesAnyFilter(metadata, filters) ==
    \E key \in DOMAIN filters :
        \/ key \notin DOMAIN metadata
        \/ IF IsList(filters[key])
           THEN metadata[key] \in filters[key].any
           ELSE metadata[key] = filters[key].value

\* _matches_filters
MatchesFilters(metadata, filters) ==
    \A key \in DOMAIN filters :
        \/ key \notin DOMAIN metadata
        \/ IF IsList(filters[key])
           THEN metadata[key] \in filters[key].any
           ELSE metadata[key] = filters[key].value

\* filters=None, and the empty dict that search() treats the same
NoFilters == <<>>

\* the mutant of TermScore with numerator and denominator exchanged
TermScoreInverted(self, idf, freq, doc_length) ==
    LET k1 == self.k1
        b  == self.b
        S  == self.avgdl.num
        N  == self.avgdl.den
        numerator   == freq * (k1.num + k1.den) * b.den * S
        denominator == freq * k1.den * b.den * S
                       + k1.num * ((b.den - b.num) * S + b.num * doc_length * N)
    IN  (idf * denominator) \div numerator

\* idf * (numerator / denominator) of search() for a term of frequency freq
\* in a document of doc_length tokens, in units of 1/LnScale
TermScore(self, idf, freq, doc_length) ==
    LET k1 == self.k1
        b  == self.b
        S  == self.avgdl.num
        N  == self.avgdl.den
        numerator   == freq * (k1.num + k1.den) * b.den * S
        denominator == freq * k1.den * b.den * S
                       + k1.num * ((b.den - b.num) * S + b.num * doc_length * N)
    IN  (idf * numerator) \div denominator

\* one pass of the scoring loop of search(): the score of the document at
\* doc_idx, whose term table the loop holds as doc_freq, before normalization
DocumentScore(self, doc_freq, query_tokens, filters, doc_idx) ==
    IF filters # NoFilters /\ ~MatchesFilters(self.corpus_metadata[doc_idx], filters)
    THEN 0
    ELSE LET hit(i) == IF query_tokens[i] \in DOMAIN doc_freq
                       THEN TermScore(self,
                                IF query_tokens[i] \in DOMAIN self.idf
                                THEN self.idf[query_tokens[i]] ELSE 0,
                                doc_freq[query_tokens[i]], self.doc_len[doc_idx])
                       ELSE 0
         IN  SumSeq([i \in 1..Len(query_tokens) |-> hit(i)])

\* the score search() computes for document doc_idx before normalization
RawScore(self, query_tokens, filters, doc_idx) ==
    DocumentScore(self, self.doc_freqs[doc_idx], query_tokens, filters, doc_idx)

SeqMax(s) == CHOOSE m \in Range(s) : \A x \in Range(s) : x <= m

\* the mutant of NormalizeScores that leaves the raw scores as they are
NormalizeScoresSkipped(scores) == scores

\* scores divided by max_score when max_score > 0
NormalizeScores(scores) ==
    LET max_score == IF scores # <<>> THEN SeqMax(scores) ELSE ScoreOne
    IN  IF max_score > 0
        THEN [i \in 1..Len(scores) |-> (scores[i] * ScoreOne) \div max_score]
        ELSE scores

\* np.argsort(keys): the indices in ascending order of key; equal keys come
\* in the order ties gives ("ascending" index for a stable sort)
RECURSIVE ArgSortOf(_, _, _)
ArgSortOf(keys, ties, left) ==
    IF left = {} THEN <<>>
    ELSE LET before(i, j) ==
                 \/ keys[i] < keys[j]
                 \/ keys[i] = keys[j]
                    /\ IF ties = "ascending" THEN i < j ELSE i > j
             first == CHOOSE i \in left : \A j \in left \ {i} : before(i, j)
         IN  <<first>> \o ArgSortOf(keys, ties, left \ {first})

ArgSort(keys, ties) == ArgSortOf(keys, ties, 1..Len(keys))

\* the mutant of ArgsortTies for a sort whose order of equal keys changes
\* from one call to the next
ArgsortTiesPerCall(build, call) ==
    IF call = 1 THEN build
    ELSE IF build = "ascending" THEN "descending" ELSE "ascending"

\* the order np.argsort gives equal keys in the given call of search(): the
\* sort draws no random numbers, so it is the order of the build in every call
ArgsortTies(build, call) == build

\* s[::-1]
Reverse(s) == [i \in 1..Len(s) |-> s[Len(s) + 1 - i]]

\* the mutant of RankedIndices that forgets to reverse the ascending order
RankedIndicesAscending(scores, top_k, ties) == Take(ArgSort(scores, ties), top_k)

\* np.argsort(scores)[::-1][:top_k]
RankedIndices(scores, top_k, ties) == Take(Reverse(ArgSort(scores, ties)), top_k)

\* the mutant of PositiveHits that keeps the entries of score 0
AllHits(scores, ranked) ==
    [r \in 1..Len(ranked) |->
        [rank |-> r, doc_index |-> ranked[r], score |-> scores[ranked[r]]]]

\* the ranked entries whose score is positive, each with its rank
PositiveHits(scores, ranked) ==
    SelectSeq([r \in 1..Len(ranked) |->
                  [rank |-> r, doc_index |-> ranked[r], score |-> scores[ranked[r]]]],
              LAMBDA h : h.score > 0)

\* search(), after the scoring loop: the scores normalized and ranked, the
\* entries that will be returned
RankedHits(raw, top_k, ties) ==
    PositiveHits(NormalizeScores(raw),
                 RankedIndices(NormalizeScores(raw), top_k, ties))

\* the result list read from corpus and corpus_metadata of instance self
ResultsOfHits(self, hits) ==
    [i \in 1..Len(hits) |->
        [text      |-> self.corpus[hits[i].doc_index],
         score     |-> hits[i].score,
         metadata  |-> self.corpus_metadata[hits[i].doc_index],
         rank      |-> hits[i].rank,
         doc_index |-> hits[i].doc_index]]

\* search(), after the scoring loop
SearchResults(self, raw, top_k, ties) ==
    ResultsOfHits(self, RankedHits(raw, top_k, ties))

\* search(query, top_k, filters) on instance self
Search(self, query, top_k, filters, ties) ==
    IF self.num_docs = 0 THEN <<>>
    ELSE LET query_tokens == Tokenize(query)
         IN  IF query_tokens = <<>> THEN <<>>
             ELSE SearchResults(self,
                                [d \in 1..Len(self.doc_freqs) |->
                                    RawScore(self, query_tokens, filters, d)],
                                top_k, ties)

(***************************************************************************)
(* Cross-encoder re-ranker (reranker.py)                                   *)
(***************************************************************************)
\* terms of the series Exp sums
ExpTerms == 14

RECURSIVE ExpSeries(_, _, _)
ExpSeries(x, k, term) ==
    IF k > ExpTerms THEN 0
    ELSE term + ExpSeries(x, k + 1, (term * x) \div (k + 1))

\* np.exp(x) for an integer x, in units of 1/ScoreOne
Exp(x) == ExpSeries(x, 0, ScoreOne * ScoreOne) \div ScoreOne

\* _sigmoid: 1 / (1 + exp(-x)), in units of 1/ScoreOne
Sigmoid(x) == (ScoreOne * ScoreOne) \div (ScoreOne + Exp(-x))

\* dict.get(key, default) on a record
Get(d, key, default) == IF key \in DOMAIN d THEN d[key] ELSE default

\* list.sort(key=..., reverse=True) of items whose keys are keys:
\* descending by key, equal keys keep their incoming order
RECURSIVE SortDescOf(_, _, _)
SortDescOf(items, keys, left) ==
    IF left = {} THEN <<>>
    ELSE LET before(i, j) ==
                 \/ keys[i] > keys[j]
                 \/ keys[i] = keys[j] /\ i < j
             first == CHOOSE i \in left : \A j \in left \ {i} : before(i, j)
         IN  <<items[first]>> \o SortDescOf(items, keys, left \ {first})

SortDesc(items, keys) == SortDescOf(items, keys, 1..Len(items))

\* the final_score of each ranked result
FinalScores(ranked) == [i \in 1..Len(ranked) |-> ranked[i].final_score]

\* sort(key=lambda x: x.final_score, reverse=True)
SortByFinalScore(ranked) == SortDesc(ranked, FinalScores(ranked))

\* the mutant of BlendScore with the two weights exchanged
BlendScoreExchanged(cross_score_norm, bi_encoder_score) ==
    (3 * cross_score_norm + 7 * bi_encoder_score) \div 10

\* the weighted combination of rerank(): 0.7 * cross-encoder + 0.3 * bi-encoder
BlendScore(cross_score_norm, bi_encoder_score) ==
    (7 * cross_score_norm + 3 * bi_encoder_score) \div 10

\* the scorer of a query whose model call raises
ScorerRaises == [raises |-> TRUE, scores |-> <<>>]

\* the scorer of a query whose model call returns raw scores, one per pair
ScorerGives(scores) == [raises |-> FALSE, scores |-> scores]

\* the ranked results of rerank() when the model call succeeded
RankedByCrossEncoder(results, cross_scores) ==
    LET ranked(idx) ==
            LET result == results[idx]
                norm   == Sigmoid(cross_scores[idx])
                bi     == Get(result, "score", 0)
            IN  [original_index      |-> idx - 1,
                 text                |-> Get(result, "text", <<>>),
                 bi_encoder_score    |-> bi,
                 cross_encoder_score |-> norm,
                 final_score         |-> BlendScore(norm, bi),
                 metadata            |-> result]
    IN  SortByFinalScore([idx \in 1..Len(results) |-> ranked(idx)])

\* the mutant of RerankFallback that keeps the incoming order
RerankFallbackUnsorted(results) ==
    [idx \in 1..Len(results) |->
        [original_index      |-> idx - 1,
         text                |-> Get(results[idx], "text", <<>>),
         bi_encoder_score    |-> Get(results[idx], "score", 0),
         cross_encoder_score |-> 0,
         final_score         |-> Get(results[idx], "score", 0),
         metadata            |-> results[idx]]]

\* the except branch of rerank(): the results sorted by bi-encoder score
RerankFallback(results) ==
    SortByFinalScore(
        [idx \in 1..Len(results) |->
            [original_index      |-> idx - 1,
             text                |-> Get(results[idx], "text", <<>>),
             bi_encoder_score    |-> Get(results[idx], "score", 0),
             cross_encoder_score |-> 0,
             final_score         |-> Get(results[idx], "score", 0),
             metadata            |-> results[idx]]])

\* the texts rerank() pairs with the query for the model
PairTexts(results) == [idx \in 1..Len(results) |-> Get(results[idx], "text", <<>>)]

\* rerank(query, results, top_k) with a model call that behaves as scorer
Rerank(results, top_k, scorer) ==
    IF results = <<>> THEN <<>>
    ELSE IF scorer.raises
         THEN Take(RerankFallback(results), top_k)
         ELSE Take(RankedByCrossEncoder(results, scorer.scores), top_k)

(***************************************************************************)
(* Specification SpecNorm: normalize() applied to bounded raw queries,     *)
(* then applied again to its own output.                                   *)
(***************************************************************************)
\* the words and marks raw queries are assembled from
QueryPieces ==
    { <<" ">>, <<".">>, <<"?">>, <<"x">>, <<"a_uml">>, <<"e_acute">>,
      <<"D","e","r">>, <<"t","h","e">>, <<"l","e">> }

\* a raw query is the concatenation of at most MaxPieces pieces
MaxPieces == 4

\* max_length of the modelled normalizer (the service passes
\* settings.RETRIEVAL_MAX_QUERY_LENGTH, 512 by default)
MaxQueryLength == 5

RawQueries ==
    UNION { {Concat(ps) : ps \in [1..n -> QueryPieces]} : n \in 0..MaxPieces }

NotRun == [ok |-> FALSE, pending |-> TRUE]

\* no search() call is outstanding
NoCall == [pending |-> FALSE]

\* the normalizer variables while no query is being normalized
NormIdle ==
    /\ nRaw = <<>>
    /\ nResult = NotRun
    /\ nAgain = NotRun

\* the BM25 variables before any index is built
BM25Idle ==
    /\ argsortTies = "ascending"
    /\ bm25 = NewBM25(DefaultK1, DefaultB)
    /\ bResults = <<>>
    /\ bCall = NoCall
    /\ bRepeat = NoCall

\* the re-ranker variables while no rerank() call is outstanding
RerankIdle ==
    /\ rCall = NoCall
    /\ rOut = <<>>

\* the retrieval service variables before a service is constructed
RetrieveIdle ==
    /\ svc = [constructed |-> FALSE]
    /\ tReq = NoCall
    /\ tOut = NoCall

\* no index() or load_index() is running and no search() runs beside one
RebuildIdle ==
    /\ writer = [program |-> <<>>]
    /\ reader = [pc |-> "idle"]

\* no fusion call is outstanding
FusionIdle ==
    /\ fCall = NoCall
    /\ fOut = NoCall

\* no index file is written and no second instance is constructed
PersistIdle ==
    /\ pFile = NoCall
    /\ pLoaded = NoCall

\* the number of concurrent callers
MaxCallers == 2

Callers == 1..MaxCallers

\* a caller outside retrieve()
IdleCaller == [pc |-> "idle"]

\* no caller is inside retrieve()
CallersIdle == cCalls = [c \in Callers |-> IdleCaller]

\* no lazy getter is being called
GetterIdle ==
    /\ gGlobal = NoCall
    /\ gThreads = NoCall

\* no QdrantService.search() call is outstanding
QdrantIdle ==
    /\ qCall = NoCall
    /\ qOut = NoCall

InitNorm ==
    /\ NormIdle /\ BM25Idle /\ RerankIdle /\ RetrieveIdle /\ RebuildIdle
    /\ FusionIdle
    /\ PersistIdle
    /\ CallersIdle
    /\ GetterIdle
    /\ QdrantIdle

\* a caller passes a raw query to normalize()
NormalizeQuery ==
    /\ nResult = NotRun
    /\ \E q \in RawQueries :
          /\ nRaw' = q
          /\ nResult' = Normalize(q, MaxQueryLength)
    /\ nAgain' = NotRun
    /\ UNCHANGED <<bm25Vars, rerankVars, retrieveVars, rebuildVars, fusionVars, persistVars, callVars, getterVars, qdrantVars>>

\* the normalized text is passed to normalize() once more
NormalizeAgain ==
    /\ nResult # NotRun
    /\ nResult.ok
    /\ nAgain = NotRun
    /\ nAgain' = Normalize(nResult.normalized, MaxQueryLength)
    /\ UNCHANGED <<nRaw, nResult>>
    /\ UNCHANGED <<bm25Vars, rerankVars, retrieveVars, rebuildVars, fusionVars, persistVars, callVars, getterVars, qdrantVars>>

\* the request is over and its NormalizedQuery values are discarded
DiscardQuery ==
    /\ nResult # NotRun
    /\ nRaw' = <<>>
    /\ nResult' = NotRun
    /\ nAgain' = NotRun
    /\ UNCHANGED <<bm25Vars, rerankVars, retrieveVars, rebuildVars, fusionVars, persistVars, callVars, getterVars, qdrantVars>>

NextNorm == NormalizeQuery \/ NormalizeAgain \/ DiscardQuery

SpecNorm == InitNorm /\ [][NextNorm]_vars

\* C9: normalization is idempotent: normalizing the normalized text of an
\* accepted query succeeds and gives the same normalized text.
C9_NormalizeIdempotent ==
    (nResult # NotRun /\ nResult.ok /\ nAgain # NotRun)
        => (nAgain.ok /\ nAgain.normalized = nResult.normalized)

\* the language the claim C10 prescribes for a cleaned text: the language
\* whose indicator count is strictly the largest, else the diacritics fallback
ClaimedLanguage(t) ==
    LET words == FindWords(Lower(t))
        g == Cardinality(words \cap german_indicators)
        e == Cardinality(words \cap english_indicators)
        f == Cardinality(words \cap french_indicators)
    IN  IF g > e /\ g > f THEN "DE"
        ELSE IF e > g /\ e > f THEN "EN"
        ELSE IF f > g /\ f > e THEN "FR"
        ELSE IF Range(t) \cap UmlautChars # {} THEN "DE"
        ELSE IF Range(t) \cap FrenchAccentChars # {} THEN "FR"
        ELSE "none"

\* C10: the detected language is the one whose indicator-word count is
\* strictly the largest; with all counts zero or the largest count tied it
\* is decided by the diacritics fallback, and is unknown otherwise.
C10_StrictlyLargestWins ==
    (nResult # NotRun /\ nResult.ok)
        => nResult.detected_language = ClaimedLanguage(CleanedText(nRaw))

(***************************************************************************)
(* Specification SpecBM25: one BM25 instance, re-indexed from bounded      *)
(* corpora and searched with bounded queries, one call at a time.          *)
(***************************************************************************)
\* the chunks corpora are drawn from: text and the metadata the index
\* builder copies from the payload
ChunkPool ==
    { [text |-> <<"a","r","m"," ","l","e","g">>,
       metadata |-> [chunk_id |-> "d1", category |-> "angebote",
                     language |-> "DE", source_type |-> "pdf"]],
      [text |-> <<"A","r","m"," ","t","o","e",".">>,
       metadata |-> [chunk_id |-> "d2", category |-> "angebote",
                     language |-> "DE", source_type |-> "text"]],
      [text |-> <<"t","h","e"," ","l","e","g"," ","1","2","3">>,
       metadata |-> [chunk_id |-> "d3", category |-> "praxis-info",
                     language |-> "EN", source_type |-> "pdf"]],
      [text |-> <<"l","e","g",","," ","l","e","g","-","a","r","m"," ","t","o">>,
       metadata |-> [chunk_id |-> "d4", category |-> "therapy",
                     source_type |-> "text"]] }

\* a corpus holds at most MaxDocs chunks
MaxDocs == 3

\* search() is called with top_k in 1..MaxTopK
MaxTopK == 3

\* the corpora: sequences of distinct chunks of the pool
Corpora ==
    UNION { {c \in [1..n -> ChunkPool] :
                \A i, j \in 1..n : i # j => c[i] # c[j]} : n \in 0..MaxDocs }

\* the three documents of the concrete scenario of section 8 of the
\* specification, and its query
ScenarioCorpus ==
    << [text |-> <<"O","s","t","e","o","p","a","t","h","y"," ","t","r","e",
                  "a","t","s"," ","j","o","i","n","t"," ","p","a","i","n",
                  " ","a","n","d"," ","m","o","b","i","l","i","t","y"," ",
                  "i","s","s","u","e","s">>,
        metadata |-> [chunk_id |-> "d1", category |-> "angebote"]],
       [text |-> <<"P","h","y","s","i","o","t","h","e","r","a","p","y"," ",
                  "i","m","p","r","o","v","e","s"," ","m","u","s","c","l",
                  "e"," ","s","t","r","e","n","g","t","h"," ","a","f","t",
                  "e","r"," ","i","n","j","u","r","y">>,
        metadata |-> [chunk_id |-> "d2", category |-> "angebote"]],
       [text |-> <<"O","u","r"," ","c","l","i","n","i","c"," ","i","s"," ",
                  "o","p","e","n"," ","M","o","n","d","a","y"," ","t","o",
                  " ","F","r","i","d","a","y"," ","n","i","n","e"," ","t",
                  "o"," ","f","i","v","e">>,
        metadata |-> [chunk_id |-> "d3", category |-> "praxis-info"]] >>

ScenarioQuery ==
    <<"j","o","i","n","t"," ","p","a","i","n"," ","t","r","e","a","t","m",
      "e","n","t">>

\* chunks of three tokens each that repeat a term
RepeatedTermPool ==
    { [text |-> <<"a","r","m"," ","a","r","m"," ","t","o","e">>,
       metadata |-> [chunk_id |-> "d5", category |-> "angebote",
                     language |-> "DE", source_type |-> "text"]],
      [text |-> <<"a","r","m"," ","t","o","e"," ","t","o","e">>,
       metadata |-> [chunk_id |-> "d6", category |-> "angebote",
                     language |-> "DE", source_type |-> "text"]],
      [text |-> <<"a","r","m"," ","a","r","m"," ","a","r","m">>,
       metadata |-> [chunk_id |-> "d7", category |-> "therapy",
                     language |-> "DE", source_type |-> "text"]] }

\* the corpora of two or three distinct chunks of that pool
RepeatedTermCorpora ==
    UNION { {c \in [1..n -> RepeatedTermPool] :
                \A i, j \in 1..n : i # j => c[i] # c[j]} : n \in 2..3 }

\* the corpora index() is called with
IndexedCorpora == Corpora \cup {ScenarioCorpus} \cup RepeatedTermCorpora

SearchQueries ==
    { ScenarioQuery,
      <<"a","r","m">>,
      <<"l","e","g"," ","T","O","E","?">>,
      <<"t","h","e"," ","a","r","m"," ","4","2">>,
      <<"t","o"," ","?">> }

SearchFilters ==
    { NoFilters,
      [category |-> [any |-> {"angebote", "therapy"}]],
      [language |-> [value |-> "DE"]],
      [category |-> [any |-> {"angebote"}], language |-> [value |-> "DE"]],
      [language |-> [value |-> "DE"], source_type |-> [value |-> "text"]] }

InitBM25 ==
    /\ NormIdle
    /\ FusionIdle
    /\ PersistIdle
    /\ CallersIdle
    /\ GetterIdle
    /\ QdrantIdle
    /\ RerankIdle
    /\ RetrieveIdle
    /\ RebuildIdle
    /\ argsortTies \in {"ascending", "descending"}
    /\ bm25 = NewBM25(DefaultK1, DefaultB)
    /\ bResults = <<>>
    /\ bCall = NoCall
    /\ bRepeat = NoCall

\* the index is (re)built from a corpus
IndexCorpus ==
    /\ bCall = NoCall
    /\ \E c \in IndexedCorpora :
          bm25' = Index(bm25, [i \in 1..Len(c) |-> c[i].text],
                              [i \in 1..Len(c) |-> c[i].metadata])
    /\ UNCHANGED <<argsortTies, bResults, bCall, bRepeat>>
    /\ UNCHANGED <<normVars, rerankVars, retrieveVars, rebuildVars, fusionVars, persistVars, callVars, getterVars, qdrantVars>>

\* a caller searches the index
SearchIndex ==
    /\ bCall = NoCall
    /\ \E q \in SearchQueries, k \in 1..MaxTopK, f \in SearchFilters :
          /\ bCall' = [pending |-> TRUE, query |-> q, top_k |-> k, filters |-> f]
          /\ bResults' = Search(bm25, q, k, f, ArgsortTies(argsortTies, 1))
    /\ UNCHANGED <<argsortTies, bm25, bRepeat>>
    /\ UNCHANGED <<normVars, rerankVars, retrieveVars, rebuildVars, fusionVars, persistVars, callVars, getterVars, qdrantVars>>

\* the caller drops the result list
DropResults ==
    /\ bCall # NoCall
    /\ bCall' = NoCall
    /\ bResults' = <<>>
    /\ bRepeat' = NoCall
    /\ UNCHANGED <<argsortTies, bm25>>
    /\ UNCHANGED <<normVars, rerankVars, retrieveVars, rebuildVars, fusionVars, persistVars, callVars, getterVars, qdrantVars>>

\* the caller calls search() once more with the same arguments, the index
\* being the one the first call searched
RepeatSearch ==
    /\ bCall # NoCall
    /\ bRepeat = NoCall
    /\ bRepeat' = [pending |-> TRUE,
                   results |-> Search(bm25, bCall.query, bCall.top_k,
                                      bCall.filters, ArgsortTies(argsortTies, 2))]
    /\ UNCHANGED <<argsortTies, bm25, bResults, bCall>>
    /\ UNCHANGED <<normVars, rerankVars, retrieveVars, rebuildVars, fusionVars, persistVars, callVars, getterVars, qdrantVars>>

NextBM25 == IndexCorpus \/ SearchIndex \/ RepeatSearch \/ DropResults

SpecBM25 == InitBM25 /\ [][NextBM25]_vars

\* C8 as stated: search() returns its results by descending score, and two
\* results of equal score come in corpus insertion order.
C8_TiesInInsertionOrder ==
    \A i, j \in 1..Len(bResults) :
        i < j => \/ bResults[i].score > bResults[j].score
                 \/ /\ bResults[i].score = bResults[j].score
                    /\ bResults[i].doc_index < bResults[j].doc_index

\* C8 as amended: search() returns its results by descending score (the
\* order of results of equal score is the one np.argsort leaves, reversed).
C8_SortedDescending ==
    \A i, j \in 1..Len(bResults) :
        i < j => bResults[i].score >= bResults[j].score

\* a search returned a strictly better result before a worse one, and two
\* results of equal score with the later-indexed chunk first
C8_Witness ==
    /\ \E i, j \in 1..Len(bResults) :
          i < j /\ bResults[i].score > bResults[j].score
    /\ \E i, j \in 1..Len(bResults) :
          /\ i < j
          /\ bResults[i].score = bResults[j].score
          /\ bResults[i].doc_index > bResults[j].doc_index

\* the filter of the call: the category set, the language and the
\* source_type it asks for, when it names them
Asks(field) == bCall.filters # NoFilters /\ field \in DOMAIN bCall.filters

\* C11: with a filter, search() returns an item only if it matches the
\* filter: its category, when it has one, is in the category set asked for,
\* its language and its source_type, when it has them, equal the ones asked
\* for, all of these together; an item without the field is not excluded.
C11_ResultsMatchFilter ==
    bCall # NoCall =>
        \A i \in 1..Len(bResults) :
            LET item == bResults[i].metadata
            IN  /\ (Asks("category") /\ "category" \in DOMAIN item)
                       => item.category \in bCall.filters.category.any
                /\ (Asks("language") /\ "language" \in DOMAIN item)
                       => item.language = bCall.filters.language.value
                /\ (Asks("source_type") /\ "source_type" \in DOMAIN item)
                       => item.source_type = bCall.filters.source_type.value

\* a search for "leg toe" with a language filter DE over d1, d3 and d4
\* returned d4, which has no language, and left out d3, which holds "leg"
\* and is in EN
C11_Witness ==
    /\ bCall # NoCall
    /\ Asks("language")
    /\ \E i \in 1..Len(bm25.corpus) :
          /\ bm25.corpus_metadata[i].chunk_id = "d3"
          /\ \E t \in Range(Tokenize(bCall.query)) : t \in DOMAIN bm25.doc_freqs[i]
          /\ \A r \in 1..Len(bResults) : bResults[r].metadata.chunk_id # "d3"
    /\ \E r \in 1..Len(bResults) : "language" \notin DOMAIN bResults[r].metadata

\* the raw scores of the documents of the index for the outstanding call
RawScoresOfCall ==
    [d \in 1..Len(bm25.doc_freqs) |->
        RawScore(bm25, Tokenize(bCall.query), bCall.filters, d)]

\* the largest raw score of the call, 0 when there is none
MaxRawOfCall == IF RawScoresOfCall = <<>> THEN 0 ELSE SeqMax(RawScoresOfCall)

\* C12: search(query, k) returns at most k candidates; each score is
\* greater than 0 and at most 1 and is the raw score divided by the largest
\* raw score of the call; the first candidate of a non-empty list has score
\* 1; when the largest raw score is 0 the list is empty.
C12_ScoresNormalizedByMax ==
    bCall # NoCall =>
        /\ Len(bResults) <= bCall.top_k
        /\ \A i \in 1..Len(bResults) :
              /\ bResults[i].score > 0
              /\ bResults[i].score <= ScoreOne
              /\ MaxRawOfCall > 0
              /\ bResults[i].score =
                    (RawScoresOfCall[bResults[i].doc_index] * ScoreOne)
                        \div MaxRawOfCall
        /\ bResults # <<>> => bResults[1].score = ScoreOne
        /\ MaxRawOfCall = 0 => bResults = <<>>

\* a search cut to k candidates a corpus with more than k positive raw
\* scores, and returned a first score of 1 before a smaller one
C12_Witness ==
    /\ bCall # NoCall
    /\ Len(bResults) = bCall.top_k
    /\ Cardinality({d \in 1..Len(RawScoresOfCall) : RawScoresOfCall[d] > 0})
          > bCall.top_k
    /\ bResults[1].score = ScoreOne
    /\ \E i \in 1..Len(bResults) : bResults[i].score < ScoreOne

\* the chunk ids search() returned, in order
ReturnedIds == [i \in 1..Len(bResults) |-> bResults[i].metadata.chunk_id]

\* the scenario call: the scenario corpus indexed, its query, k = 2
ScenarioCall ==
    /\ bCall # NoCall
    /\ bm25.corpus = [i \in 1..Len(ScenarioCorpus) |-> ScenarioCorpus[i].text]
    /\ bCall.query = ScenarioQuery
    /\ bCall.top_k = 2
    /\ bCall.filters = NoFilters

\* C13: search() returns an item only if one of the query's tokens (lower
\* case, longer than 2 characters, not all digits) occurs in the item; in
\* the scenario of three documents, "joint pain treatment" with k = 2
\* returns d1 first and never d3.
C13_ResultsShareAQueryToken ==
    bCall # NoCall =>
        /\ \A t \in Range(Tokenize(bCall.query)) :
              Len(t) > 2 /\ ~IsDigit(t) /\ Lower(t) = t
        /\ \A i \in 1..Len(bResults) :
              \E t \in Range(Tokenize(bCall.query)) :
                  t \in Range(Tokenize(bResults[i].text))
        /\ ScenarioCall =>
              /\ bResults # <<>>
              /\ ReturnedIds[1] = "d1"
              /\ "d3" \notin Range(ReturnedIds)

\* the scenario call returned d1 alone
C13_Witness == ScenarioCall /\ ReturnedIds = <<"d1">>

FrequencyIn(d, term) ==
    IF term \in DOMAIN bm25.doc_freqs[d] THEN bm25.doc_freqs[d][term] ELSE 0

\* documents i and j have the same number of tokens and, among the terms of
\* the query, differ in the frequency of one term only, which is higher in i
HigherInOneQueryTerm(i, j, terms) ==
    /\ bm25.doc_len[i] = bm25.doc_len[j]
    /\ \E t \in terms :
          /\ FrequencyIn(i, t) > FrequencyIn(j, t)
          /\ \A u \in terms \ {t} : FrequencyIn(i, u) = FrequencyIn(j, u)

\* the terms of the query of the call
TermsOfCall == Range(Tokenize(bCall.query))

\* both documents pass the filters of the call
BothScored(i, j) ==
    bCall.filters # NoFilters =>
        /\ MatchesFilters(bm25.corpus_metadata[i], bCall.filters)
        /\ MatchesFilters(bm25.corpus_metadata[j], bCall.filters)

\* with the scores given, a document scores no less than one of equal length
\* that holds one query term less often and the others as often
NoLessWhereHigher(scores, terms) ==
    \A i, j \in 1..bm25.num_docs :
        (HigherInOneQueryTerm(i, j, terms) /\ BothScored(i, j))
            => scores[i] >= scores[j]

\* C20: of two indexed documents of equal token length that differ only in
\* the frequency of one query term, the one with the higher frequency gets
\* a BM25 score greater than or equal to the other's, before normalization
\* and in the results returned.
C20_HigherFrequencyScoresNoLess ==
    bCall # NoCall =>
        /\ NoLessWhereHigher(RawScoresOfCall, TermsOfCall)
        /\ \A r, q \in 1..Len(bResults) :
              HigherInOneQueryTerm(bResults[r].doc_index, bResults[q].doc_index,
                                   TermsOfCall)
                  => bResults[r].score >= bResults[q].score

\* the three scores differ, the highest for the highest frequency
ThreeLevels(scores, terms) ==
    \E i, j, l \in 1..3 :
        /\ HigherInOneQueryTerm(i, j, terms) /\ BothScored(i, j)
        /\ HigherInOneQueryTerm(j, l, terms) /\ BothScored(j, l)
        /\ scores[i] > scores[j]
        /\ scores[j] > scores[l]
        /\ scores[l] > 0

\* a search scored a document that holds a query term three times above
\* one of equal length that holds it twice, and that one above a third
\* that holds it once
C20_Witness ==
    /\ bCall # NoCall
    /\ bm25.num_docs = 3
    /\ ThreeLevels(RawScoresOfCall, TermsOfCall)

(***************************************************************************)
(* Specification SpecRerank: rerank() on bounded candidate lists, with a   *)
(* model call that succeeds or raises.                                     *)
(***************************************************************************)
\* candidates as the two searches produce them: a vector-search hit carries
\* its text inside payload, a BM25 hit carries text and metadata
CandidatePool ==
    { [id |-> 1, score |-> 800,
       payload |-> [chunk_id |-> "d1", text |-> <<"a","r","m">>]],
      [id |-> 2, score |-> 600,
       payload |-> [chunk_id |-> "d2", text |-> <<"l","e","g">>]],
      [id |-> 3, score |-> 600,
       payload |-> [chunk_id |-> "d3", text |-> <<"t","o","e">>]],
      [text |-> <<"a","r","m">>, score |-> 1000, rank |-> 1, doc_index |-> 0,
       metadata |-> [chunk_id |-> "d1"]],
      [text |-> <<"t","o","e">>, score |-> 300, rank |-> 2, doc_index |-> 2,
       metadata |-> [chunk_id |-> "d3"]] }

\* rerank() gets at most MaxCandidates candidates
MaxCandidates == 3

\* the raw scores the cross-encoder gives a pair
RawCrossScores == {-2, 0, 3}

CandidateLists ==
    UNION { {c \in [1..n -> CandidatePool] :
                \A i, j \in 1..n : i # j => c[i] # c[j]} : n \in 0..MaxCandidates }

Scorers(n) == {ScorerRaises} \cup {ScorerGives(sc) : sc \in [1..n -> RawCrossScores]}

InitRerank ==
    /\ NormIdle
    /\ FusionIdle
    /\ PersistIdle
    /\ CallersIdle
    /\ GetterIdle
    /\ QdrantIdle
    /\ BM25Idle
    /\ RerankIdle
    /\ RetrieveIdle
    /\ RebuildIdle

\* a caller re-ranks a candidate list
RerankCall ==
    /\ rCall = NoCall
    /\ \E c \in CandidateLists, k \in 1..MaxCandidates :
          \E sc \in Scorers(Len(c)) :
             /\ rCall' = [pending |-> TRUE, results |-> c, top_k |-> k,
                          scorer |-> sc]
             /\ rOut' = Rerank(c, k, sc)
    /\ UNCHANGED <<normVars, bm25Vars, retrieveVars, rebuildVars, fusionVars, persistVars, callVars, getterVars, qdrantVars>>

\* the caller drops the ranked list
DropRanked ==
    /\ rCall # NoCall
    /\ rCall' = NoCall
    /\ rOut' = <<>>
    /\ UNCHANGED <<normVars, bm25Vars, retrieveVars, rebuildVars, fusionVars, persistVars, callVars, getterVars, qdrantVars>>

NextRerank == RerankCall \/ DropRanked

SpecRerank == InitRerank /\ [][NextRerank]_vars

\* the model call of the outstanding rerank() raised
ScorerFailed == rCall # NoCall /\ rCall.scorer.raises

ScorerSucceeded == rCall # NoCall /\ ~rCall.scorer.raises

\* the final score the claim C25 prescribes for candidate n of the call:
\* 0.7 * logistic(raw score) + 0.3 * incoming score, in units of 1/ScoreOne
ClaimedFinal(n) ==
    (7 * Sigmoid(rCall.scorer.scores[n]) + 3 * rCall.results[n].score) \div 10

RETRIEVAL_TOP_K == 1

RETRIEVAL_MIN_SCORE == 500

RETRIEVAL_MAX_QUERY_LENGTH == 512

RERANKER_TOP_K == 3

HYBRID_ALPHA == [num |-> 7, den |-> 10]

\* the largest top_k QdrantService.search accepts
QdrantMaxTopK == 100

\* an optional argument: None, or a value
None == [none |-> TRUE]

Some(v) == [value |-> v]

\* the truth value Python gives an optional argument whose falsy value
\* (0, the empty list, the empty string) is falsy
Truthy(x, falsy) == x # None /\ x.value # falsy

\* RetrievalService.__init__: the mode flags and components, given the two
\* settings, whether get_reranker() succeeds, and the BM25 instance
\* get_bm25_search() hands out (reranker and bm25_search are TRUE when the
\* attribute holds an object and FALSE when it holds None); the two settings
\* are kept beside the attributes
ServiceInit(reranker_setting, reranker_loads, hybrid_setting, index) ==
    [constructed           |-> TRUE,
     RERANKER_ENABLED      |-> reranker_setting,
     HYBRID_SEARCH_ENABLED |-> hybrid_setting,
     reranker_enabled      |-> reranker_setting /\ reranker_loads,
     reranker              |-> reranker_setting /\ reranker_loads,
     hybrid_search_enabled |-> hybrid_setting /\ index.num_docs > 0,
     bm25_search           |-> hybrid_setting]

\* RetrievalFilters(category, language, source_type)
RetrievalFilters(category, language, source_type) ==
    [category |-> category, language |-> language, source_type |-> source_type]

\* to_qdrant_filter: the must-conditions, in order (None when there is none,
\* which search() treats as the empty list)
ToQdrantFilter(filters) ==
    (IF Truthy(filters.category, {})
     THEN <<[key |-> "category", match |-> [any |-> filters.category.value]]>>
     ELSE <<>>)
    \o (IF Truthy(filters.language, "")
        THEN <<[key |-> "language", match |-> [value |-> filters.language.value]]>>
        ELSE <<>>)
    \o (IF Truthy(filters.source_type, "")
        THEN <<[key |-> "source_type",
                match |-> [value |-> filters.source_type.value]]>>
        ELSE <<>>)

\* the filter dict _hybrid_search hands to BM25.search
BM25FilterDict(filters) ==
    LET keys == (IF Truthy(filters.category, {}) THEN {"category"} ELSE {})
                \cup (IF Truthy(filters.language, "") THEN {"language"} ELSE {})
    IN  [key \in keys |->
            IF key = "category" THEN [any |-> filters.category.value]
            ELSE [value |-> filters.language.value]]

\* Filter(must=conditions) as the vector store evaluates it on a payload:
\* every condition holds, and a payload without the key fails the condition
PointMatches(payload, must) ==
    \A i \in 1..Len(must) :
        /\ must[i].key \in DOMAIN payload
        /\ IF IsList(must[i].match)
           THEN payload[must[i].key] \in must[i].match.any
           ELSE payload[must[i].key] = must[i].match.value

\* the outcome of a call that raised, and of one that returned
Raised(kind) == [raises |-> TRUE, kind |-> kind, results |-> <<>>]

Returned(results) == [raises |-> FALSE, kind |-> "none", results |-> results]

\* the points the vector store returns for a query: [id, score, payload] of
\* the hits, best first, at most limit of them
QueryPoints(hits, similarity, limit) ==
    Take(SortDesc([i \in 1..Len(hits) |->
                      [id      |-> hits[i].id,
                       score   |-> similarity[hits[i].id],
                       payload |-> hits[i].payload]],
                  [i \in 1..Len(hits) |-> similarity[hits[i].id]]),
         limit)

\* QdrantService.search on a collection of points whose similarity to the
\* query vector is similarity[id]: the points that pass the filter and the
\* threshold, best first, at most top_k of them
QdrantSearch(points, similarity, top_k, must, score_threshold) ==
    IF top_k < 1 \/ top_k > QdrantMaxTopK THEN Raised("ValueError")
    ELSE Returned(QueryPoints(
             SelectSeq(points, LAMBDA p :
                 /\ PointMatches(p.payload, must)
                 /\ \/ score_threshold = None
                    \/ similarity[p.id] >= score_threshold.value),
             similarity, top_k))

\* the score_threshold mutant that never passes a threshold on
NoScoreThreshold(min_score) == None

\* the score_threshold _search_vectors passes: min_score if min_score > 0
ScoreThreshold(min_score) == IF min_score > 0 THEN Some(min_score) ELSE None

\* _search_vectors, the except clause: every exception of the search
\* becomes a RuntimeError
WrapSearchError(found) == IF found.raises THEN Raised("RuntimeError") ELSE found

\* _search_vectors
SearchVectors(points, similarity, top_k, filters, min_score) ==
    WrapSearchError(QdrantSearch(points, similarity, top_k,
                                 ToQdrantFilter(filters),
                                 ScoreThreshold(min_score)))

\* weighted_fusion, first loop: doc_scores after the BM25 results, as the
\* dict's items in insertion order (a repeated key keeps its place)
RECURSIVE AddBM25Scores(_, _)
AddBM25Scores(doc_scores, bm25_results) ==
    IF bm25_results = <<>> THEN doc_scores
    ELSE LET result == Head(bm25_results)
             doc_id == Get(result.metadata, "chunk_id", Get(result, "text", <<>>))
             entry  == [doc_id |-> doc_id, result |-> result,
                        bm25_score |-> result.score, semantic_score |-> 0]
             at     == {i \in 1..Len(doc_scores) : doc_scores[i].doc_id = doc_id}
         IN  AddBM25Scores(IF at = {} THEN Append(doc_scores, entry)
                           ELSE [doc_scores EXCEPT ![CHOOSE i \in at : TRUE] = entry],
                           Tail(bm25_results))

\* the mutant of AddSemanticScores that adds no entry for a doc_id the
\* BM25 results lack
AddKnownSemanticScores(doc_scores, semantic_results) ==
    [i \in 1..Len(doc_scores) |->
        LET at == {j \in 1..Len(semantic_results) :
                      semantic_results[j].payload.chunk_id = doc_scores[i].doc_id}
        IN  IF at = {} THEN doc_scores[i]
            ELSE [doc_scores[i] EXCEPT
                     !.semantic_score = semantic_results[CHOOSE j \in at : TRUE].score]]

\* weighted_fusion, second loop: a known doc_id gets its semantic score, a
\* new one is added with its own result
RECURSIVE AddSemanticScores(_, _)
AddSemanticScores(doc_scores, semantic_results) ==
    IF semantic_results = <<>> THEN doc_scores
    ELSE LET result == Head(semantic_results)
             doc_id == Get(Get(result, "payload", <<>>), "chunk_id",
                           Get(result, "text", <<>>))
             score  == Get(result, "score", 0)
             entry  == [doc_id |-> doc_id, result |-> result,
                        bm25_score |-> 0, semantic_score |-> score]
             at     == {i \in 1..Len(doc_scores) : doc_scores[i].doc_id = doc_id}
         IN  AddSemanticScores(
                 IF at = {} THEN Append(doc_scores, entry)
                 ELSE [doc_scores EXCEPT
                          ![CHOOSE i \in at : TRUE].semantic_score = score],
                 Tail(semantic_results))

\* the mutant of FinalScore that adds the whole BM25 score
UnweightedScore(entry, alpha) ==
    (alpha.num * entry.semantic_score + alpha.den * entry.bm25_score)
        \div alpha.den

\* alpha * semantic_score + (1 - alpha) * bm25_score
FinalScore(entry, alpha) ==
    (alpha.num * entry.semantic_score
     + (alpha.den - alpha.num) * entry.bm25_score) \div alpha.den

\* the mutant of SortedDocs that leaves the entries in dict order
UnsortedDocs(doc_scores, alpha) ==
    [i \in 1..Len(doc_scores) |-> doc_scores[i].result]

\* weighted_fusion, from the third loop on: the stored result of every
\* doc_id, by descending final score
SortedDocs(doc_scores, alpha) ==
    SortDesc([i \in 1..Len(doc_scores) |-> doc_scores[i].result],
             [i \in 1..Len(doc_scores) |-> FinalScore(doc_scores[i], alpha)])

\* weighted_fusion
WeightedFusion(bm25_results, semantic_results, alpha) ==
    SortedDocs(AddSemanticScores(AddBM25Scores(<<>>, bm25_results),
                                 semantic_results),
               alpha)

\* weighted_fusion: the entries of doc_scores with their final_score, sorted
ScoredDocs(doc_scores, alpha) ==
    SortDesc([i \in 1..Len(doc_scores) |->
                 [doc_id      |-> doc_scores[i].doc_id,
                  result      |-> doc_scores[i].result,
                  final_score |-> FinalScore(doc_scores[i], alpha)]],
             [i \in 1..Len(doc_scores) |-> FinalScore(doc_scores[i], alpha)])

\* the entries weighted_fusion sorts, for its two arguments
WeightedScored(bm25_results, semantic_results, alpha) ==
    ScoredDocs(AddSemanticScores(AddBM25Scores(<<>>, bm25_results),
                                 semantic_results),
               alpha)

\* a stage asked for top_k results
Ask(stage, top_k) == [stage |-> stage, top_k |-> top_k]

\* the fusion of a hybrid search cut to top_k: the entries of doc_scores it
\* kept, each with its result and its final_score
AskFusion(scored, top_k) == Ask("fusion", top_k) @@ [scored |-> Take(scored, top_k)]

\* _hybrid_search, steps 2 and 3: the fusion of the BM25 results with the
\* outcome of the vector search, cut to top_k
FuseSearches(bm25_results, semantic, top_k) ==
    IF semantic.raises THEN semantic @@ [fused |-> <<>>]
    ELSE Returned(Take(WeightedFusion(bm25_results, semantic.results,
                                      HYBRID_ALPHA), top_k))
         @@ [fused |-> <<AskFusion(WeightedScored(bm25_results,
                                                  semantic.results,
                                                  HYBRID_ALPHA), top_k)>>]


\* _hybrid_search after both searches: the outcome of the fusion, the
\* searches invoked and what each stage was asked for
Searched(fused, top_k) ==
    [raises  |-> fused.raises,
     kind    |-> fused.kind,
     results |-> fused.results,
     calls   |-> <<"bm25", "vector">>,
     asked   |-> <<Ask("bm25", top_k * 2), Ask("vector", top_k * 2)>>
                 \o fused.fused]

\* _hybrid_search: the BM25 search (whose exception it does not catch), the
\* vector search, the fusion and the cut to top_k; calls lists the searches
\* it invoked and asked the top_k it passed to each
HybridSearch(index, ties, points, env, query, top_k, filters, min_score) ==
    IF env.bm25_raises
    THEN Raised("Exception")
         @@ [calls |-> <<"bm25">>, asked |-> <<Ask("bm25", top_k * 2)>>]
    ELSE Searched(FuseSearches(Search(index, query, top_k * 2,
                                      BM25FilterDict(filters), ties),
                               SearchVectors(points, env.similarity, top_k * 2,
                                             filters, min_score),
                               top_k),
                  top_k)

\* the scorer the cross-encoder is for the candidates of this call: it
\* raises, or scores each pair by its passage text
ScorerOf(env, results) ==
    IF env.scorer_raises THEN ScorerRaises
    ELSE ScorerGives([i \in 1..Len(results) |-> env.cross[PairTexts(results)[i]]])

\* retrieve, step 5: the re-ranked candidates as search results again, the
\* score replaced by the final score
RerankedResults(reranked) ==
    [i \in 1..Len(reranked) |->
        [score               |-> reranked[i].final_score,
         original_score      |-> reranked[i].bi_encoder_score,
         cross_encoder_score |-> reranked[i].cross_encoder_score]
        @@ reranked[i].metadata]

\* _format_results: a RetrievalResult per search result, or the KeyError of
\* a search result without payload
FormatResults(search_results) ==
    IF \E i \in 1..Len(search_results) : "payload" \notin DOMAIN search_results[i]
    THEN Raised("KeyError")
    ELSE Returned([i \in 1..Len(search_results) |->
             LET payload == search_results[i].payload
             IN  [text            |-> Get(payload, "text", <<>>),
                  score           |-> search_results[i].score,
                  chunk_id        |-> Get(payload, "chunk_id", ""),
                  source_document |-> Get(payload, "source_document", ""),
                  category        |-> Get(payload, "category", ""),
                  language        |-> Get(payload, "language", "None"),
                  chunk_index     |-> Get(payload, "chunk_index", 0),
                  total_chunks    |-> Get(payload, "total_chunks", 1),
                  source_type     |-> Get(payload, "source_type", ""),
                  metadata        |-> payload]])

\* the exception retrieve() raises for an exception of the given kind inside
\* its try block: a ValueError as it is, anything else as a RuntimeError
Surfaced(kind) == IF kind = "ValueError" THEN "ValueError" ELSE "RuntimeError"

\* the outcome of a retrieve() call that raised: the exception, the stages
\* it had invoked, and the candidates it had for formatting
Failure(kind, calls, asked, candidates) ==
    [kind |-> Surfaced(kind), calls |-> calls, asked |-> asked,
     candidates |-> candidates,
     results |-> <<>>, total_results |-> 0]

\* the mutant of Sizes that never enlarges the candidate pool
SizesWithoutPool(self, args) ==
    LET top_k == IF Truthy(args.top_k, 0) THEN args.top_k.value
                 ELSE RETRIEVAL_TOP_K
    IN  [top_k     |-> top_k,
         min_score |-> IF args.min_score # None THEN args.min_score.value
                       ELSE RETRIEVAL_MIN_SCORE,
         candidate_top_k |-> top_k,
         rerank_top_k    |-> IF top_k < RERANKER_TOP_K THEN top_k
                             ELSE RERANKER_TOP_K]

\* retrieve, lines 144-156: the effective top_k and min_score and the sizes
\* of the candidate pool and of the re-ranked list
Sizes(self, args) ==
    LET top_k     == IF Truthy(args.top_k, 0) THEN args.top_k.value
                     ELSE RETRIEVAL_TOP_K
        reranking == self.reranker_enabled /\ self.reranker
    IN  [top_k     |-> top_k,
         min_score |-> IF args.min_score # None THEN args.min_score.value
                       ELSE RETRIEVAL_MIN_SCORE,
         candidate_top_k |-> IF ~reranking THEN top_k
                             ELSE IF top_k * 10 > 15 THEN top_k * 10 ELSE 15,
         rerank_top_k    |-> IF ~reranking THEN 0
                             ELSE IF top_k < RERANKER_TOP_K THEN top_k
                             ELSE RERANKER_TOP_K]

\* retrieve, step 1: the language filter, the explicit argument or else the
\* detected language
ResolveLanguage(language, detected_language) ==
    IF ~Truthy(language, "") /\ detected_language # "none"
    THEN Some(detected_language)
    ELSE language

\* retrieve, step 4: hybrid search or semantic search only
SearchStage(self, index, ties, points, env, query, sizes, filters) ==
    IF self.hybrid_search_enabled /\ self.bm25_search
    THEN HybridSearch(index, ties, points, env, query, sizes.candidate_top_k,
                      filters, sizes.min_score)
    ELSE SearchVectors(points, env.similarity, sizes.candidate_top_k, filters,
                       sizes.min_score)
         @@ [calls |-> <<"vector">>,
             asked |-> <<Ask("vector", sizes.candidate_top_k)>>]

\* the re-ranker asked for top_k of the results: the candidates handed to
\* it and the passage text rerank() pairs with the query for each
AskRerank(results, top_k) ==
    Ask("rerank", top_k) @@ [results |-> results, texts |-> PairTexts(results)]

\* retrieve, step 5: the search results re-ranked when the service re-ranks
\* and there are any; calls lists the stage when it ran
RerankStage(self, env, found, sizes) ==
    IF self.reranker_enabled /\ self.reranker /\ Len(found) > 0
    THEN [results |-> RerankedResults(Rerank(found, sizes.rerank_top_k,
                                             ScorerOf(env, found))),
          calls   |-> <<"rerank">>,
          asked   |-> <<AskRerank(found, sizes.rerank_top_k)>>]
    ELSE [results |-> found, calls |-> <<>>, asked |-> <<>>]

\* retrieve, step 6 to the end: the response, or the exception of formatting
Respond(self, args, normalized, language, sizes, calls, asked, found, formatted) ==
    IF formatted.raises THEN Failure(formatted.kind, calls, asked, found)
    ELSE [kind             |-> "response",
          calls            |-> calls,
          asked            |-> asked,
          candidates       |-> found,
          results          |-> Take(formatted.results, sizes.top_k),
          total_results    |-> Len(Take(formatted.results, sizes.top_k)),
          query            |-> args.query,
          normalized_query |-> normalized.normalized,
          detected_language |-> normalized.detected_language,
          filters_applied  |-> [category          |-> args.category,
                                language          |-> language,
                                source_type       |-> args.source_type,
                                min_score         |-> sizes.min_score,
                                reranking_enabled |-> self.reranker_enabled]]

\* retrieve, after the search stage
AfterSearch(self, args, env, normalized, language, sizes, searched) ==
    IF searched.raises
    THEN Failure(searched.kind, <<"embed">> \o searched.calls, searched.asked,
                 <<>>)
    ELSE LET ranked == RerankStage(self, env, searched.results, sizes)
         IN  Respond(self, args, normalized, language, sizes,
                     <<"embed">> \o searched.calls \o ranked.calls,
                     searched.asked \o ranked.asked,
                     ranked.results, FormatResults(ranked.results))

\* retrieve, after normalization
AfterNormalize(self, index, ties, points, args, env, sizes, normalized) ==
    IF ~normalized.ok THEN Failure("ValueError", <<>>, <<>>, <<>>)
    ELSE IF env.embed_raises
    THEN Failure("RuntimeError", <<"embed">>, <<>>, <<>>)
    ELSE LET language == ResolveLanguage(args.language,
                                         normalized.detected_language)
         IN  AfterSearch(self, args, env, normalized, language, sizes,
                 SearchStage(self, index, ties, points, env,
                             normalized.normalized, sizes,
                             RetrievalFilters(args.category, language,
                                              args.source_type)))

\* retrieve(query, top_k, category, language, source_type, min_score) of the
\* service self, with BM25 instance index and vector store points, in an
\* environment env that says how the external models behave for this call
Retrieve(self, index, ties, points, args, env) ==
    AfterNormalize(self, index, ties, points, args, env, Sizes(self, args),
                   Normalize(args.query, RETRIEVAL_MAX_QUERY_LENGTH))

(***************************************************************************)
(* Specification SpecRetrieve: a constructed RetrievalService answers      *)
(* retrieve() calls, one at a time, over a fixed collection.               *)
(***************************************************************************)
\* the indexed chunks, in corpus order: the BM25 corpus and the points of
\* the vector store hold the same chunks
RetrievalChunks ==
    << [text |-> <<"a","r","m"," ","l","e","g">>,
        metadata |-> [chunk_id |-> "d1", category |-> "angebote",
                      language |-> "DE", source_type |-> "pdf"]],
       [text |-> <<"A","r","m"," ","t","o","e",".">>,
        metadata |-> [chunk_id |-> "d2", category |-> "angebote",
                      language |-> "DE", source_type |-> "text"]],
       [text |-> <<"t","h","e"," ","l","e","g"," ","1","2","3">>,
        metadata |-> [chunk_id |-> "d3", category |-> "praxis-info",
                      language |-> "EN", source_type |-> "pdf"]] >>

\* the points of the vector store: the payload is the metadata and the text
Points ==
    [i \in 1..Len(RetrievalChunks) |->
        [id      |-> i,
         payload |-> [text |-> RetrievalChunks[i].text]
                     @@ RetrievalChunks[i].metadata]]

\* the index file build_bm25_index wrote for these chunks, loaded
LoadedIndex ==
    Index(NewBM25(DefaultK1, DefaultB),
          [i \in 1..Len(RetrievalChunks) |-> RetrievalChunks[i].text],
          [i \in 1..Len(RetrievalChunks) |-> RetrievalChunks[i].metadata])

\* the queries callers send: empty, blank, without and with an indicator word
RetrieveQueries ==
    { <<>>, <<" ">>, <<"a","r","m">>, <<"D","e","r"," ","l","e","g">> }

\* the arguments callers send
RetrieveArgs ==
    [query       : RetrieveQueries,
     top_k       : {None, Some(2)},
     category    : {None, Some({"angebote"})},
     language    : {None, Some("EN")},
     source_type : {None, Some("pdf")},
     min_score   : {None, Some(0)}]

\* the similarity scores the vector store can give a point
SimilarityScores == {300, 800}

\* the raw scores the cross-encoder can give a pair during retrieve()
RetrieveCrossScores == {-2, 3}

\* the passage texts a call of this service can pair with the query
CrossTexts(self) ==
    {<<>>} \cup (IF self.hybrid_search_enabled
                 THEN {RetrievalChunks[i].text : i \in 1..Len(RetrievalChunks)}
                 ELSE {})

\* an environment in which nothing raises
CalmEnv(self) ==
    [embed_raises  |-> FALSE,
     similarity    |-> [i \in 1..Len(RetrievalChunks) |-> 800],
     scorer_raises |-> FALSE,
     cross         |-> [t \in CrossTexts(self) |-> 3],
     bm25_raises   |-> FALSE]

\* the environments of a call, as far as the call can consult them (cross
\* is what the cross-encoder says of a passage text when it does not raise)
Environments(self, args) ==
    IF ~Normalize(args.query, RETRIEVAL_MAX_QUERY_LENGTH).ok
    THEN {CalmEnv(self)}
    ELSE {[CalmEnv(self) EXCEPT !.embed_raises = TRUE]}
         \cup
         {[embed_raises  |-> FALSE,
           similarity    |-> sim,
           scorer_raises |-> raises,
           cross         |-> cross,
           bm25_raises   |-> fails] :
             sim    \in [1..Len(RetrievalChunks) -> SimilarityScores],
             raises \in IF self.reranker_enabled THEN BOOLEAN ELSE {FALSE},
             cross  \in IF self.reranker_enabled
                        THEN [CrossTexts(self) -> RetrieveCrossScores]
                        ELSE {CalmEnv(self).cross},
             fails  \in IF self.hybrid_search_enabled THEN BOOLEAN ELSE {FALSE}}

\* the service is constructed: the settings, the re-ranker model that loads
\* or not, and the index file that is there or not
InitRetrieve ==
    /\ NormIdle
    /\ FusionIdle
    /\ PersistIdle
    /\ CallersIdle
    /\ GetterIdle
    /\ QdrantIdle
    /\ RerankIdle
    /\ RebuildIdle
    /\ argsortTies \in {"ascending", "descending"}
    /\ bResults = <<>>
    /\ bCall = NoCall
    /\ bRepeat = NoCall
    /\ \E reranker_setting, reranker_loads, hybrid_setting, has_file \in BOOLEAN :
          /\ bm25 = IF hybrid_setting /\ has_file THEN LoadedIndex
                    ELSE NewBM25(DefaultK1, DefaultB)
          /\ svc = ServiceInit(reranker_setting, reranker_loads, hybrid_setting,
                               bm25)
    /\ tReq = NoCall
    /\ tOut = NoCall

\* a caller calls retrieve() and the call runs to its end
RetrieveCall ==
    /\ tReq = NoCall
    /\ \E args \in RetrieveArgs :
          \E env \in Environments(svc, args) :
             /\ tReq' = [pending |-> TRUE, args |-> args, env |-> env]
             /\ tOut' = Retrieve(svc, bm25, argsortTies, Points, args, env)
    /\ UNCHANGED
          <<svc, normVars, bm25Vars, rerankVars, rebuildVars, fusionVars, persistVars, callVars, getterVars, qdrantVars>>

\* the caller has the response or the exception
ReturnToCaller ==
    /\ tReq # NoCall
    /\ tReq' = NoCall
    /\ tOut' = NoCall
    /\ UNCHANGED
          <<svc, normVars, bm25Vars, rerankVars, rebuildVars, fusionVars, persistVars, callVars, getterVars, qdrantVars>>

NextRetrieve == RetrieveCall \/ ReturnToCaller

SpecRetrieve == InitRetrieve /\ [][NextRetrieve]_vars

\* a retrieve() call has returned a response
Responded == tReq # NoCall /\ tOut.kind = "response"

\* the top_k the outstanding call asked of the stage, in call order
AskedOf(stage) ==
    SelectSeq(tOut.asked, LAMBDA a : a.stage = stage)

\* the stage was invoked by the outstanding retrieve() call
Invoked(stage) == tReq # NoCall /\ stage \in Range(tOut.calls)

\* the min_score in force for the outstanding call
EffectiveMinScore ==
    IF tReq.args.min_score # None THEN tReq.args.min_score.value
    ELSE RETRIEVAL_MIN_SCORE

\* the language filter in force for the outstanding call: the explicit
\* argument, else the detected language
EffectiveLanguage ==
    IF tReq.args.language # None THEN tReq.args.language
    ELSE LET detected == Normalize(tReq.args.query,
                                   RETRIEVAL_MAX_QUERY_LENGTH).detected_language
         IN  IF detected = "none" THEN None ELSE Some(detected)

\* the similarity the vector store gave the chunk of a result
SimilarityOf(chunk_id) ==
    tReq.env.similarity[CHOOSE i \in 1..Len(Points) :
                            Points[i].payload.chunk_id = chunk_id]

\* the chunk fields of a candidate, wherever the candidate came from
FieldsOf(candidate) ==
    IF "payload" \in DOMAIN candidate THEN candidate.payload
    ELSE candidate.metadata

\* the chunk fields satisfy every supplied filter field
SatisfiesFilters(fields) ==
    /\ tReq.args.category # None
          => fields.category \in tReq.args.category.value
    /\ EffectiveLanguage # None => fields.language = EffectiveLanguage.value
    /\ tReq.args.source_type # None
          => fields.source_type = tReq.args.source_type.value

\* C1 as stated: every result of a response has a score of at least the
\* effective min_score, in every mode.
C1_FinalScoreAtLeastMinScore ==
    Responded =>
        \A i \in 1..Len(tOut.results) : tOut.results[i].score >= EffectiveMinScore

\* C1 as amended: every result of a response is a chunk whose vector-search
\* similarity is at least the effective min_score (the threshold is given to
\* the vector search, before fusion and re-ranking), and when the call did
\* not re-rank, the score of the result is that similarity.
C1_SimilarityAtLeastMinScore ==
    Responded =>
        \A i \in 1..Len(tOut.results) :
            /\ SimilarityOf(tOut.results[i].chunk_id) >= EffectiveMinScore
            /\ ~Invoked("rerank")
                  => tOut.results[i].score = SimilarityOf(tOut.results[i].chunk_id)

\* a re-ranked response under a positive min_score has a result whose final
\* score is below min_score, while a chunk was held back by the threshold
C1_Witness ==
    /\ Responded
    /\ Invoked("rerank")
    /\ EffectiveMinScore > 0
    /\ \E i \in 1..Len(tOut.results) : tOut.results[i].score < EffectiveMinScore
    /\ \E i \in 1..Len(Points) : tReq.env.similarity[i] < EffectiveMinScore

\* C2: when the BM25 search of a hybrid call raises, retrieve() returns a
\* response from the semantic-only candidates and the service stays hybrid.
C2_BM25FailureFallsBack ==
    (Invoked("bm25") /\ tReq.env.bm25_raises) =>
        /\ tOut.kind = "response"
        /\ svc.hybrid_search_enabled

C5_ScorerFailureNotSurfaced ==
    (/\ Invoked("rerank")
     /\ tReq.env.scorer_raises
     /\ Retrieve(svc, bm25, argsortTies, Points, tReq.args,
                 [tReq.env EXCEPT !.scorer_raises = FALSE]).kind = "response")
        => tOut.kind = "response"

\* C7: normalize() rejects an empty or all-whitespace query, and retrieve()
\* on it raises ValueError having invoked no stage.
C7_BlankQueryRejectedFirst ==
    (/\ tReq # NoCall
     /\ \A i \in 1..Len(tReq.args.query) : tReq.args.query[i] \in WhitespaceChars)
        => /\ ~Normalize(tReq.args.query, RETRIEVAL_MAX_QUERY_LENGTH).ok
           /\ tOut.kind = "ValueError"
           /\ tOut.calls = <<>>

\* retrieve() raised ValueError on a blank query of the service with every
\* stage enabled, having invoked none
C7_Witness ==
    /\ tReq # NoCall
    /\ tReq.args.query = <<" ">>
    /\ svc.reranker_enabled /\ svc.hybrid_search_enabled
    /\ tOut.kind = "ValueError"
    /\ tOut.calls = <<>>


\* the re-ranker was enabled by the setting and failed to load when the
\* service was constructed
RerankerFailedToLoad == svc.RERANKER_ENABLED /\ ~svc.reranker

\* hybrid search was enabled by the setting and the keyword index was
\* absent or empty when the service was constructed
IndexUnavailable == svc.HYBRID_SEARCH_ENABLED /\ bm25.num_docs = 0

\* the query of the outstanding call is accepted and no external capability
\* the call uses fails
NothingFails ==
    /\ Normalize(tReq.args.query, RETRIEVAL_MAX_QUERY_LENGTH).ok
    /\ ~tReq.env.embed_raises
    /\ ~tReq.env.bm25_raises
    /\ ~tReq.env.scorer_raises

\* a stage that was unavailable when the service was constructed is
\* invoked by no retrieve() call of the service
C22_DisabledStageNeverInvoked ==
    tReq # NoCall =>
        /\ RerankerFailedToLoad => ~Invoked("rerank")
        /\ IndexUnavailable => ~Invoked("bm25")

\* C22: if the re-ranker fails to load, or the keyword index is absent or
\* empty, when the service is constructed, no later retrieve() call invokes
\* that stage, and retrieve() still returns a response from the remaining
\* stages without surfacing an error.
C22_DisabledStageDegradesQuietly ==
    (tReq # NoCall /\ (RerankerFailedToLoad \/ IndexUnavailable)) =>
        /\ C22_DisabledStageNeverInvoked
        /\ NothingFails => tOut.kind = "response"

\* the candidate came from the vector search
VectorOrigin(candidate) == "payload" \in DOMAIN candidate

\* the chunk text of a candidate of either origin: the text of the indexed
\* chunk that has its chunk_id
ChunkTextOf(candidate) ==
    LET id == IF VectorOrigin(candidate) THEN candidate.payload.chunk_id
              ELSE candidate.metadata.chunk_id
        at == CHOOSE i \in 1..Len(RetrievalChunks) :
                  RetrievalChunks[i].metadata.chunk_id = id
    IN  RetrievalChunks[at].text

\* C26: for every candidate retrieve() hands to the re-ranker, whether it
\* came from the vector search or from the keyword index, the passage text
\* paired with the query for the scorer is the candidate's chunk text.
C26_PairedTextIsChunkText ==
    tReq # NoCall =>
        \A a \in 1..Len(tOut.asked) :
            tOut.asked[a].stage = "rerank" =>
                \A i \in 1..Len(tOut.asked[a].results) :
                    tOut.asked[a].texts[i] = ChunkTextOf(tOut.asked[a].results[i])

\* the passage text paired with the query is the chunk text for every
\* candidate handed to the re-ranker that came from the keyword index
C26_KeywordOriginPairedWithText ==
    tReq # NoCall =>
        \A a \in 1..Len(tOut.asked) :
            tOut.asked[a].stage = "rerank" =>
                \A i \in 1..Len(tOut.asked[a].results) :
                    ~VectorOrigin(tOut.asked[a].results[i]) =>
                        tOut.asked[a].texts[i]
                            = ChunkTextOf(tOut.asked[a].results[i])

\* the entries the fusion of the outstanding call kept: none when no fusion
\* ran
FusedEntries ==
    LET at == {a \in 1..Len(tOut.asked) : tOut.asked[a].stage = "fusion"}
    IN  IF at = {} THEN <<>> ELSE tOut.asked[CHOOSE a \in at : TRUE].scored

\* the candidates as they leave the fusion of the outstanding call: what the
\* re-ranker is handed when it runs, else what goes to formatting
OutOfFusion ==
    IF AskedOf("rerank") # <<>> THEN AskedOf("rerank")[1].results
    ELSE tOut.candidates

\* C27: in hybrid mode the score each candidate carries out of fusion, the
\* incoming score of the re-ranker and the score reported when re-ranking
\* is off, is its fused final score alpha * semantic_score + (1 - alpha) *
\* bm25_score.
C27_CarriesFusedScore ==
    (tReq # NoCall /\ FusedEntries # <<>>) =>
        /\ Len(OutOfFusion) = Len(FusedEntries)
        /\ \A i \in 1..Len(FusedEntries) :
              /\ OutOfFusion[i] = FusedEntries[i].result
              /\ OutOfFusion[i].score = FusedEntries[i].final_score
        /\ (Responded /\ AskedOf("rerank") = <<>>) =>
              \A i \in 1..Len(tOut.results) :
                  tOut.results[i].score = FusedEntries[i].final_score

\* the candidates leave fusion in the order of their final scores, each
\* being the result one of the two searches returned for it
C27_CarriesSourceResult ==
    (tReq # NoCall /\ FusedEntries # <<>>) =>
        /\ Len(OutOfFusion) = Len(FusedEntries)
        /\ \A i \in 1..Len(FusedEntries) :
              OutOfFusion[i] = FusedEntries[i].result
        /\ \A i, j \in 1..Len(FusedEntries) :
              i < j => FusedEntries[i].final_score >= FusedEntries[j].final_score

\* both searches of a hybrid call returned and their lists were fused
BothSearchesSucceeded == tReq # NoCall /\ AskedOf("fusion") # <<>>

\* C30: in hybrid mode, when the keyword search and the vector search both
\* succeed, retrieve() returns a response and does not raise, whatever the
\* origin of the fused candidates: a candidate from the keyword index is
\* formatted into a result with its chunk_id, text and metadata like a
\* candidate from the vector search.
C30_HybridRespondsForEveryOrigin ==
    BothSearchesSucceeded =>
        /\ Responded
        /\ \A i \in 1..Len(tOut.results) :
              /\ tOut.results[i].text = ChunkTextOf(tOut.candidates[i])
              /\ tOut.results[i].chunk_id
                    = IF VectorOrigin(tOut.candidates[i])
                      THEN tOut.candidates[i].payload.chunk_id
                      ELSE tOut.candidates[i].metadata.chunk_id
              /\ \A k \in {"category", "language", "source_type"} :
                    tOut.results[i].metadata[k]
                        = IF VectorOrigin(tOut.candidates[i])
                          THEN tOut.candidates[i].payload[k]
                          ELSE tOut.candidates[i].metadata[k]

\* a hybrid call whose candidates all came from the vector search returns
\* a response, and one with a candidate from the keyword index raises
C30_RaisesForKeywordOrigin ==
    BothSearchesSucceeded =>
        (Responded <=> \A i \in 1..Len(tOut.candidates) :
                          VectorOrigin(tOut.candidates[i]))

(***************************************************************************)
(* index() and load_index() as the assignments they make to the instance,  *)
(* one at a time in source order (bm25_search.py)                          *)
(***************************************************************************)

\* self.field = value
Assign(field, value) == [kind |-> "assign", field |-> field, value |-> value]

\* self.field.append(value)
AppendTo(field, value) == [kind |-> "append", field |-> field, value |-> value]

\* self.field[key] = value
SetItem(field, key, value) ==
    [kind |-> "setitem", field |-> field, key |-> key, value |-> value]

\* the instance after one assignment
Apply(self, op) ==
    CASE op.kind = "assign"  -> [self EXCEPT ![op.field] = op.value]
      [] op.kind = "append"  -> [self EXCEPT ![op.field] = Append(@, op.value)]
      [] op.kind = "setitem" -> [self EXCEPT ![op.field] = (op.key :> op.value) @@ @]

\* {}: the dict with no keys
EmptyDict == [t \in {} |-> 0]

\* key in d, for a dict d
InDict(key, d) == d # <<>> /\ key \in DOMAIN d

\* index(): the loop that appends each document's term table and length
RECURSIVE AppendDocuments(_)
AppendDocuments(doc_tokens) ==
    IF doc_tokens = <<>> THEN <<>>
    ELSE <<AppendTo("doc_freqs", Counter(Head(doc_tokens))),
           AppendTo("doc_len", Len(Head(doc_tokens)))>>
         \o AppendDocuments(Tail(doc_tokens))

\* the keys of a dict filled from s, in insertion order
RECURSIVE FirstSeen(_)
FirstSeen(s) ==
    IF s = <<>> THEN <<>>
    ELSE <<Head(s)>> \o FirstSeen(SelectSeq(Tail(s), LAMBDA x : x # Head(s)))

\* df[term] of index()
DocumentFrequency(doc_tokens, term) ==
    Cardinality({i \in 1..Len(doc_tokens) : term \in Range(doc_tokens[i])})

\* index(): the loop that stores the IDF of each term of df
FillIdf(doc_tokens, terms) ==
    [i \in 1..Len(terms) |->
        SetItem("idf", terms[i],
                Idf(Len(doc_tokens), DocumentFrequency(doc_tokens, terms[i])))]

\* self.avgdl of index()
AverageLength(doc_tokens) ==
    IF Len(doc_tokens) > 0
    THEN [num |-> SumSeq([i \in 1..Len(doc_tokens) |-> Len(doc_tokens[i])]),
          den |-> Len(doc_tokens)]
    ELSE [num |-> 0, den |-> 1]

\* index(corpus, metadata) with the documents tokenized to doc_tokens
IndexAssignments(corpus, metadata, doc_tokens) ==
    <<Assign("corpus", corpus),
      Assign("corpus_metadata", metadata),
      Assign("num_docs", Len(corpus)),
      Assign("doc_freqs", <<>>),
      Assign("doc_len", <<>>)>>
    \o AppendDocuments(doc_tokens)
    \o <<Assign("avgdl", AverageLength(doc_tokens)),
         Assign("idf", EmptyDict)>>
    \o FillIdf(doc_tokens, FirstSeen(Concat(doc_tokens)))

\* index(corpus, metadata): its assignments in order
IndexProgram(corpus, metadata) ==
    IndexAssignments(corpus, metadata,
                     [i \in 1..Len(corpus) |-> Tokenize(corpus[i])])

\* load_index(filepath) of a file that holds index_data
LoadProgram(index_data) ==
    <<Assign("k1", index_data.k1),
      Assign("b", index_data.b),
      Assign("corpus", index_data.corpus),
      Assign("corpus_metadata", index_data.corpus_metadata),
      Assign("doc_freqs", index_data.doc_freqs),
      Assign("idf", index_data.idf),
      Assign("doc_len", index_data.doc_len),
      Assign("avgdl", index_data.avgdl),
      Assign("num_docs", index_data.num_docs)>>

(***************************************************************************)
(* search() as the reads it makes of the instance: the emptiness test,     *)
(* the start of the scoring loop, each pass of the loop, and the ranking   *)
(* that builds the result list (bm25_search.py)                            *)
(***************************************************************************)

\* a read of self.field
ReadField(self, field) ==
    [field |-> field, item |-> FALSE, found |-> TRUE, key |-> 0,
     value |-> self[field]]

\* a read of container[key], container being what self.field holds; found is
\* FALSE when the key is absent (IndexError, or the default of dict.get)
ReadItem(container, field, key) ==
    [field |-> field, item |-> TRUE, found |-> InDict(key, container),
     key |-> key, value |-> IF InDict(key, container) THEN container[key] ELSE 0]

\* the query terms the term table doc_freq holds
TermsIn(doc_freq, query_tokens) ==
    SelectSeq(query_tokens, LAMBDA t : InDict(t, doc_freq))

\* doc_length / self.avgdl divides by zero
DividesByZero(self, matching) == matching # <<>> /\ self.avgdl.num = 0

\* the reads of the formula of one pass, for the query terms found in the
\* term table
FormulaReads(self, matching) ==
    IF matching = <<>> THEN <<>>
    ELSE [i \in 1..Len(matching) |-> ReadItem(self.idf, "idf", matching[i])]
         \o <<ReadField(self, "k1"), ReadField(self, "b"),
              ReadField(self, "avgdl")>>

\* the filter test of one pass skips the document
FilteredOut(self, filters, doc_idx) ==
    /\ filters # NoFilters
    /\ InDict(doc_idx, self.corpus_metadata)
    /\ ~MatchesFilters(self.corpus_metadata[doc_idx], filters)

\* one pass raises IndexError: the metadata or the length of doc_idx is absent
PassIndexError(self, filters, doc_idx) ==
    \/ filters # NoFilters /\ ~InDict(doc_idx, self.corpus_metadata)
    \/ ~InDict(doc_idx, self.doc_len)

\* the reads of one pass of the scoring loop over the list doc_freqs
PassReads(self, doc_freqs, query_tokens, filters, doc_idx) ==
    <<ReadItem(doc_freqs, "doc_freqs", doc_idx)>>
    \o (IF filters # NoFilters
        THEN <<ReadItem(self.corpus_metadata, "corpus_metadata", doc_idx)>>
        ELSE <<>>)
    \o (IF \/ filters # NoFilters /\ ~InDict(doc_idx, self.corpus_metadata)
           \/ FilteredOut(self, filters, doc_idx)
        THEN <<>>
        ELSE <<ReadItem(self.doc_len, "doc_len", doc_idx)>>
             \o IF ~InDict(doc_idx, self.doc_len) THEN <<>>
                ELSE FormulaReads(self, IF self.avgdl.num = 0
                                        THEN Take(TermsIn(doc_freqs[doc_idx],
                                                          query_tokens), 1)
                                        ELSE TermsIn(doc_freqs[doc_idx],
                                                     query_tokens)))

\* what one pass of the scoring loop does: raises, or appends a score
PassOutcome(self, doc_freq, query_tokens, filters, doc_idx) ==
    IF FilteredOut(self, filters, doc_idx) THEN [raises |-> FALSE, score |-> 0]
    ELSE IF PassIndexError(self, filters, doc_idx)
    THEN [raises |-> TRUE, kind |-> "IndexError"]
    ELSE IF DividesByZero(self, TermsIn(doc_freq, query_tokens))
    THEN [raises |-> TRUE, kind |-> "ZeroDivisionError"]
    ELSE [raises |-> FALSE,
          score |-> DocumentScore(self, doc_freq, query_tokens, filters, doc_idx)]

\* the reads that build the result list, up to the first that raises
RECURSIVE ResultReads(_, _)
ResultReads(self, hits) ==
    IF hits = <<>> THEN <<>>
    ELSE IF ~InDict(Head(hits).doc_index, self.corpus)
    THEN <<ReadItem(self.corpus, "corpus", Head(hits).doc_index)>>
    ELSE IF ~InDict(Head(hits).doc_index, self.corpus_metadata)
    THEN <<ReadItem(self.corpus, "corpus", Head(hits).doc_index),
           ReadItem(self.corpus_metadata, "corpus_metadata", Head(hits).doc_index)>>
    ELSE <<ReadItem(self.corpus, "corpus", Head(hits).doc_index),
           ReadItem(self.corpus_metadata, "corpus_metadata", Head(hits).doc_index)>>
         \o ResultReads(self, Tail(hits))

\* search() after the scoring loop, on whatever the instance holds now
ResultOutcome(self, hits) ==
    IF \E i \in 1..Len(hits) : \/ ~InDict(hits[i].doc_index, self.corpus)
                               \/ ~InDict(hits[i].doc_index, self.corpus_metadata)
    THEN Raised("IndexError")
    ELSE Returned(ResultsOfHits(self, hits))

(***************************************************************************)
(* Specification SpecRebuild: one caller runs index() or load_index() on   *)
(* the instance that another caller is searching.  The writer takes one    *)
(* assignment per step; the reader takes the emptiness test, the start of  *)
(* the loop, each pass of the loop and the ranking as one step each.       *)
(***************************************************************************)
\* index() and load_index() are called at most MaxRebuilds times
MaxRebuilds == 1

\* the chunks of a rebuild, as positions in RetrievalChunks
RebuildCorpora == { <<3>>, <<2, 1>> }

TextsOf(c) == [i \in 1..Len(c) |-> RetrievalChunks[c[i]].text]

MetadataOf(c) == [i \in 1..Len(c) |-> RetrievalChunks[c[i]].metadata]

\* the index files load_index() may read
StoredIndexes ==
    { Index(NewBM25(DefaultK1, DefaultB), TextsOf(<<3, 1>>), MetadataOf(<<3, 1>>)) }

ConcurrentQueries == { <<"a","r","m">>, <<"l","e","g"," ","t","o","e">> }

ConcurrentFilters == { NoFilters, [language |-> [value |-> "DE"]] }

\* the reader between two searches
IdleReader == [pc |-> "idle"]

InitRebuild ==
    /\ NormIdle
    /\ FusionIdle
    /\ PersistIdle
    /\ CallersIdle
    /\ GetterIdle
    /\ QdrantIdle
    /\ RerankIdle
    /\ RetrieveIdle
    /\ argsortTies \in {"ascending", "descending"}
    /\ bm25 \in {NewBM25(DefaultK1, DefaultB), LoadedIndex}
    /\ bResults = <<>>
    /\ bCall = NoCall
    /\ bRepeat = NoCall
    /\ writer = [program |-> <<>>, rebuilds |-> 0, complete |-> <<bm25>>]
    /\ reader = IdleReader

\* a caller calls index(corpus, metadata) on the instance
BeginIndex ==
    /\ writer.program = <<>>
    /\ writer.rebuilds < MaxRebuilds
    /\ \E c \in RebuildCorpora :
          writer' = [program  |-> IndexProgram(TextsOf(c), MetadataOf(c)),
                     rebuilds |-> writer.rebuilds + 1,
                     complete |-> Append(writer.complete,
                                         Index(bm25, TextsOf(c), MetadataOf(c)))]
    /\ UNCHANGED
          <<reader, bm25Vars, normVars, rerankVars, retrieveVars, fusionVars, persistVars, callVars, getterVars, qdrantVars>>

\* a caller calls load_index(filepath) on the instance
BeginLoad ==
    /\ writer.program = <<>>
    /\ writer.rebuilds < MaxRebuilds
    /\ \E index_data \in StoredIndexes :
          writer' = [program  |-> LoadProgram(index_data),
                     rebuilds |-> writer.rebuilds + 1,
                     complete |-> Append(writer.complete, index_data)]
    /\ UNCHANGED
          <<reader, bm25Vars, normVars, rerankVars, retrieveVars, fusionVars, persistVars, callVars, getterVars, qdrantVars>>

\* the loop of the reader runs over the list object self.doc_freqs holds
ReaderHoldsList == reader.pc = "scoring" /\ reader.live

\* the writer makes its next assignment; a list the reader's loop runs over
\* stays as it is when self.doc_freqs is given another list
WriteStep ==
    /\ writer.program # <<>>
    /\ bm25' = Apply(bm25, Head(writer.program))
    /\ writer' = [writer EXCEPT !.program = Tail(@)]
    /\ reader' = IF /\ ReaderHoldsList
                    /\ Head(writer.program).kind = "assign"
                    /\ Head(writer.program).field = "doc_freqs"
                 THEN [reader EXCEPT !.live = FALSE, !.list = bm25.doc_freqs]
                 ELSE reader
    /\ UNCHANGED <<argsortTies, bResults, bCall, bRepeat>>
    /\ UNCHANGED <<normVars, rerankVars, retrieveVars, fusionVars, persistVars, callVars, getterVars, qdrantVars>>

\* the reader after the emptiness test and the tokenizing of search()
Started(self, query_tokens, top_k, filters) ==
    [pc           |-> IF self.num_docs = 0 \/ query_tokens = <<>>
                      THEN "done" ELSE "tokenized",
     query_tokens |-> query_tokens,
     top_k        |-> top_k,
     filters      |-> filters,
     live         |-> FALSE,
     list         |-> <<>>,
     scores       |-> <<>>,
     reads        |-> <<ReadField(self, "num_docs")>>,
     outcome      |-> Returned(<<>>)]

\* a caller calls search(): the emptiness test and the tokenizing
BeginSearch ==
    /\ reader.pc = "idle"
    /\ \E q \in ConcurrentQueries, f \in ConcurrentFilters :
          reader' = Started(bm25, Tokenize(q), MaxTopK, f)
    /\ UNCHANGED
          <<writer, bm25Vars, normVars, rerankVars, retrieveVars, fusionVars, persistVars, callVars, getterVars, qdrantVars>>

\* enumerate(self.doc_freqs): the loop takes the list the field holds now
StartScoring ==
    /\ reader.pc = "tokenized"
    /\ reader' = [reader EXCEPT !.pc = "scoring", !.live = TRUE]
    /\ UNCHANGED
          <<writer, bm25Vars, normVars, rerankVars, retrieveVars, fusionVars, persistVars, callVars, getterVars, qdrantVars>>

\* the reader after one pass over list, which now holds what doc_freqs says
AfterPass(self, doc_freqs, doc_idx, passed) ==
    IF ~InDict(doc_idx, doc_freqs)
    THEN [reader EXCEPT !.pc = "ranking",
                        !.reads = Append(@, ReadItem(doc_freqs, "doc_freqs", doc_idx))]
    ELSE IF passed.raises
    THEN [reader EXCEPT !.pc = "done",
                        !.reads = @ \o PassReads(self, doc_freqs, reader.query_tokens,
                                                 reader.filters, doc_idx),
                        !.outcome = Raised(passed.kind)]
    ELSE [reader EXCEPT !.scores = Append(@, passed.score),
                        !.reads = @ \o PassReads(self, doc_freqs, reader.query_tokens,
                                                 reader.filters, doc_idx)]

\* the pass over the document at doc_idx of the list doc_freqs
ScorePass(self, doc_freqs, doc_idx) ==
    AfterPass(self, doc_freqs, doc_idx,
              IF InDict(doc_idx, doc_freqs)
              THEN PassOutcome(self, doc_freqs[doc_idx], reader.query_tokens,
                               reader.filters, doc_idx)
              ELSE [raises |-> FALSE, score |-> 0])

\* one pass of the scoring loop, or its end
ScoreDocument ==
    /\ reader.pc = "scoring"
    /\ reader' = ScorePass(bm25,
                           IF reader.live THEN bm25.doc_freqs ELSE reader.list,
                           Len(reader.scores) + 1)
    /\ UNCHANGED
          <<writer, bm25Vars, normVars, rerankVars, retrieveVars, fusionVars, persistVars, callVars, getterVars, qdrantVars>>

\* the reader after the ranking built the result list from hits
Finished(self, hits) ==
    [reader EXCEPT !.pc = "done",
                   !.reads = @ \o ResultReads(self, hits),
                   !.outcome = ResultOutcome(self, hits)]

\* search() after the loop: normalize, rank, build the result list
FinishSearch ==
    /\ reader.pc = "ranking"
    /\ reader' = Finished(bm25, RankedHits(reader.scores, reader.top_k, argsortTies))
    /\ UNCHANGED
          <<writer, bm25Vars, normVars, rerankVars, retrieveVars, fusionVars, persistVars, callVars, getterVars, qdrantVars>>

\* the caller of search() has the result list or the exception
ForgetSearch ==
    /\ reader.pc = "done"
    /\ reader' = IdleReader
    /\ UNCHANGED
          <<writer, bm25Vars, normVars, rerankVars, retrieveVars, fusionVars, persistVars, callVars, getterVars, qdrantVars>>

NextRebuild ==
    \/ BeginIndex \/ BeginLoad \/ WriteStep
    \/ BeginSearch \/ StartScoring \/ ScoreDocument \/ FinishSearch
    \/ ForgetSearch

SpecRebuild == InitRebuild /\ [][NextRebuild]_vars

\* a read saw what the complete index snapshot holds
ReadAgrees(read, snapshot) ==
    IF ~read.item THEN snapshot[read.field] = read.value
    ELSE IF read.found
    THEN /\ InDict(read.key, snapshot[read.field])
         /\ snapshot[read.field][read.key] = read.value
    ELSE ~InDict(read.key, snapshot[read.field])

\* every read of the search saw what one complete index holds
ReadsOneSnapshot ==
    \E s \in 1..Len(writer.complete) :
        \A i \in 1..Len(reader.reads) :
            ReadAgrees(reader.reads[i], writer.complete[s])

\* C6: a search() that runs while index() or load_index() writes the
\* instance never sees partial state: all it read of the corpus, the
\* metadata, the term tables, the lengths, the IDF table, the average length
\* and the document count is what one complete index, the old or the new,
\* holds.
C6_SearchReadsOneSnapshot == reader.pc = "done" => ReadsOneSnapshot

(***************************************************************************)
(* HybridSearchFusion (bm25_search.py): the scored entries of the two      *)
(* fusion strategies.  RRF scores are exact, in units of 1/unit, unit      *)
(* being a common multiple of the k + rank that occur.                     *)
(***************************************************************************)

\* reciprocal_rank_fusion: k: int = 60
DefaultRrfK == 60

\* a common multiple of k + 1 .. k + n
RECURSIVE RrfUnit(_, _)
RrfUnit(k, n) == IF n = 0 THEN 1 ELSE (k + n) * RrfUnit(k, n - 1)

\* 1.0 / (k + rank)
RrfScore(k, rank, unit) == unit \div (k + rank)

\* reciprocal_rank_fusion, first loop: the BM25 results from rank on
RECURSIVE AddBM25Ranks(_, _, _, _, _)
AddBM25Ranks(doc_scores, bm25_results, rank, k, unit) ==
    IF bm25_results = <<>> THEN doc_scores
    ELSE LET result == Head(bm25_results)
             doc_id == Get(result.metadata, "chunk_id", Get(result, "text", <<>>))
             entry  == [doc_id |-> doc_id, result |-> result,
                        bm25_rrf |-> RrfScore(k, rank, unit), semantic_rrf |-> 0,
                        bm25_rank |-> Some(rank), semantic_rank |-> None]
             at     == {i \in 1..Len(doc_scores) : doc_scores[i].doc_id = doc_id}
         IN  AddBM25Ranks(
                 IF at = {} THEN Append(doc_scores, entry)
                 ELSE [doc_scores EXCEPT
                          ![CHOOSE i \in at : TRUE].bm25_rrf = RrfScore(k, rank, unit),
                          ![CHOOSE i \in at : TRUE].bm25_rank = Some(rank)],
                 Tail(bm25_results), rank + 1, k, unit)

\* reciprocal_rank_fusion, second loop: the semantic results from rank on
RECURSIVE AddSemanticRanks(_, _, _, _, _)
AddSemanticRanks(doc_scores, semantic_results, rank, k, unit) ==
    IF semantic_results = <<>> THEN doc_scores
    ELSE LET result == Head(semantic_results)
             doc_id == Get(Get(result, "payload", <<>>), "chunk_id",
                           Get(result, "text", <<>>))
             entry  == [doc_id |-> doc_id, result |-> result,
                        bm25_rrf |-> 0, semantic_rrf |-> RrfScore(k, rank, unit),
                        bm25_rank |-> None, semantic_rank |-> Some(rank)]
             at     == {i \in 1..Len(doc_scores) : doc_scores[i].doc_id = doc_id}
         IN  AddSemanticRanks(
                 IF at = {} THEN Append(doc_scores, entry)
                 ELSE [doc_scores EXCEPT
                          ![CHOOSE i \in at : TRUE].semantic_rrf = RrfScore(k, rank, unit),
                          ![CHOOSE i \in at : TRUE].semantic_rank = Some(rank)],
                 Tail(semantic_results), rank + 1, k, unit)

\* the mutant of RrfFinal that keeps the better of the two channels
RrfBest(entry) ==
    IF entry.bm25_rrf > entry.semantic_rrf THEN entry.bm25_rrf
    ELSE entry.semantic_rrf

\* final_score of reciprocal_rank_fusion
RrfFinal(entry) == entry.bm25_rrf + entry.semantic_rrf

\* reciprocal_rank_fusion, third loop and sort: the entries with their
\* final_score, by descending final_score
RrfSorted(doc_scores) ==
    SortDesc([i \in 1..Len(doc_scores) |->
                 [doc_id        |-> doc_scores[i].doc_id,
                  result        |-> doc_scores[i].result,
                  bm25_rank     |-> doc_scores[i].bm25_rank,
                  semantic_rank |-> doc_scores[i].semantic_rank,
                  final_score   |-> RrfFinal(doc_scores[i])]],
             [i \in 1..Len(doc_scores) |-> RrfFinal(doc_scores[i])])

\* the entries reciprocal_rank_fusion sorts, for its arguments
RrfScored(bm25_results, semantic_results, k, unit) ==
    RrfSorted(AddSemanticRanks(AddBM25Ranks(<<>>, bm25_results, 1, k, unit),
                               semantic_results, 1, k, unit))

\* return [item['result'] for item in sorted_docs]
ResultsOf(sorted_docs) == [i \in 1..Len(sorted_docs) |-> sorted_docs[i].result]

(***************************************************************************)
(* Specification SpecFusion: weighted_fusion and reciprocal_rank_fusion on *)
(* bounded result lists.  Each list holds a chunk at most once, as the     *)
(* lists of BM25.search and of the vector search do.                       *)
(***************************************************************************)
\* a result list holds at most MaxFused results
MaxFused == 2

FusionIds == {"d1", "d2", "d3"}

\* the scores of the results handed to the fusion, in [0, 1]
FusionScores == {0, 400, ScoreOne}

\* a result of BM25.search
KeywordResult(id, score, rank) ==
    [text |-> <<id>>, score |-> score, metadata |-> [chunk_id |-> id], rank |-> rank]

\* a result of the vector search
SemanticResult(id, score) ==
    [id |-> id, score |-> score, payload |-> [chunk_id |-> id, text |-> <<id>>]]

\* the sequences of at most MaxFused distinct ids
IdLists ==
    UNION { {c \in [1..n -> FusionIds] :
                \A i, j \in 1..n : i # j => c[i] # c[j]} : n \in 0..MaxFused }

KeywordLists ==
    UNION { {[i \in 1..Len(ids) |-> KeywordResult(ids[i], sc[i], i)] :
                sc \in [1..Len(ids) -> FusionScores]} : ids \in IdLists }

SemanticLists ==
    UNION { {[i \in 1..Len(ids) |-> SemanticResult(ids[i], sc[i])] :
                sc \in [1..Len(ids) -> FusionScores]} : ids \in IdLists }

\* alpha: 0, the configured weight and 1
FusionAlphas == {[num |-> 0, den |-> 1], HYBRID_ALPHA, [num |-> 1, den |-> 1]}

\* k of reciprocal_rank_fusion
RrfKs == {1, DefaultRrfK}

InitFusion ==
    /\ NormIdle
    /\ BM25Idle
    /\ RerankIdle
    /\ RetrieveIdle
    /\ RebuildIdle
    /\ FusionIdle
    /\ PersistIdle
    /\ CallersIdle
    /\ GetterIdle
    /\ QdrantIdle

\* what a weighted_fusion call leaves: its sorted entries and its return
WeightedOut(scored, results) == [scored |-> scored, results |-> results]

\* a caller calls weighted_fusion
FuseWeighted ==
    /\ fCall = NoCall
    /\ \E b \in KeywordLists, sem \in SemanticLists, alpha \in FusionAlphas :
          /\ fCall' = [pending |-> TRUE, strategy |-> "weighted",
                       bm25_results |-> b, semantic_results |-> sem,
                       alpha |-> alpha]
          /\ fOut' = WeightedOut(WeightedScored(b, sem, alpha),
                                  WeightedFusion(b, sem, alpha))
    /\ UNCHANGED <<normVars, bm25Vars, rerankVars, retrieveVars, rebuildVars, persistVars, callVars, getterVars, qdrantVars>>

\* what a reciprocal_rank_fusion call leaves
RrfOut(scored, unit) ==
    [scored |-> scored, results |-> ResultsOf(scored), unit |-> unit]

\* a caller calls reciprocal_rank_fusion
FuseReciprocal ==
    /\ fCall = NoCall
    /\ \E b \in KeywordLists, sem \in SemanticLists, k \in RrfKs :
          /\ fCall' = [pending |-> TRUE, strategy |-> "rrf",
                       bm25_results |-> b, semantic_results |-> sem, k |-> k]
          /\ fOut' = RrfOut(RrfScored(b, sem, k, RrfUnit(k, MaxFused)),
                            RrfUnit(k, MaxFused))
    /\ UNCHANGED <<normVars, bm25Vars, rerankVars, retrieveVars, rebuildVars, persistVars, callVars, getterVars, qdrantVars>>

\* the caller drops the fused list
DropFused ==
    /\ fCall # NoCall
    /\ fCall' = NoCall
    /\ fOut' = NoCall
    /\ UNCHANGED <<normVars, bm25Vars, rerankVars, retrieveVars, rebuildVars, persistVars, callVars, getterVars, qdrantVars>>

NextFusion == FuseWeighted \/ FuseReciprocal \/ DropFused

SpecFusion == InitFusion /\ [][NextFusion]_vars

\* the chunk_id of a result of either kind
ChunkIdOf(result) ==
    IF "metadata" \in DOMAIN result THEN result.metadata.chunk_id
    ELSE result.payload.chunk_id

ChunkIdsOf(results) == {ChunkIdOf(results[i]) : i \in 1..Len(results)}

\* C14: for weighted_fusion and for reciprocal_rank_fusion, the chunk_ids of
\* the fused list are those of the two input lists together, and each
\* chunk_id is in the fused list exactly once.
C14_FusedIdsAreTheUnion ==
    fCall # NoCall =>
        /\ ChunkIdsOf(fOut.results)
             = ChunkIdsOf(fCall.bm25_results) \cup ChunkIdsOf(fCall.semantic_results)
        /\ \A i, j \in 1..Len(fOut.results) :
              i # j => ChunkIdOf(fOut.results[i]) # ChunkIdOf(fOut.results[j])

\* each strategy fused two lists that share one chunk and hold one chunk
\* each of their own
C14_SharedAndOwn ==
    /\ fCall # NoCall
    /\ Len(fOut.results) = 3
    /\ ChunkIdsOf(fCall.bm25_results) \cap ChunkIdsOf(fCall.semantic_results) # {}
    /\ ChunkIdsOf(fCall.bm25_results) # ChunkIdsOf(fCall.semantic_results)

C14_Witness == C14_SharedAndOwn /\ fCall.strategy = "rrf"

\* the score a list gives the chunk id, 0 when the list lacks it
ScoreIn(results, id) ==
    IF id \in ChunkIdsOf(results)
    THEN results[CHOOSE i \in 1..Len(results) : ChunkIdOf(results[i]) = id].score
    ELSE 0

\* alpha * semantic_score + (1 - alpha) * bm25_score of the chunk id, from
\* the two lists of the call
WeightedFinalOf(id) ==
    (fCall.alpha.num * ScoreIn(fCall.semantic_results, id)
     + (fCall.alpha.den - fCall.alpha.num) * ScoreIn(fCall.bm25_results, id))
        \div fCall.alpha.den

WeightedCall == fCall # NoCall /\ fCall.strategy = "weighted"

\* C15: weighted_fusion returns the candidates by descending final score,
\* final = alpha * semantic_score + (1 - alpha) * bm25_score, a chunk_id
\* that only one list holds counting 0 for the other.
C15_OrderedByWeightedFinal ==
    WeightedCall =>
        /\ \A i \in 1..Len(fOut.results) :
              fOut.scored[i].final_score = WeightedFinalOf(ChunkIdOf(fOut.results[i]))
        /\ \A i, j \in 1..Len(fOut.results) :
              i < j => WeightedFinalOf(ChunkIdOf(fOut.results[i]))
                          >= WeightedFinalOf(ChunkIdOf(fOut.results[j]))

\* with the configured alpha, a chunk that only the semantic list holds came
\* before a chunk of both lists, which came before one that only the BM25
\* list holds, the three final scores differing
C15_Witness ==
    /\ WeightedCall
    /\ fCall.alpha = HYBRID_ALPHA
    /\ Len(fOut.results) = 3
    /\ ChunkIdOf(fOut.results[1]) \notin ChunkIdsOf(fCall.bm25_results)
    /\ ChunkIdOf(fOut.results[2]) \in ChunkIdsOf(fCall.bm25_results)
                                       \cap ChunkIdsOf(fCall.semantic_results)
    /\ ChunkIdOf(fOut.results[3]) \notin ChunkIdsOf(fCall.semantic_results)
    /\ fOut.scored[1].final_score > fOut.scored[2].final_score
    /\ fOut.scored[2].final_score > fOut.scored[3].final_score

\* C16: with every input score in [0, 1] and alpha in [0, 1], every final
\* score of weighted_fusion is in [0, 1].
C16_FinalScoreInUnitRange ==
    WeightedCall =>
        \A i \in 1..Len(fOut.scored) :
            fOut.scored[i].final_score >= 0 /\ fOut.scored[i].final_score <= ScoreOne

\* a chunk with score 1 in both lists got the final score 1, and a chunk
\* with score 0 in both the final score 0, with the configured alpha
C16_Witness ==
    /\ WeightedCall
    /\ fCall.alpha = HYBRID_ALPHA
    /\ \E i \in 1..Len(fOut.scored) :
          /\ fOut.scored[i].final_score = ScoreOne
          /\ ScoreIn(fCall.bm25_results, fOut.scored[i].doc_id) = ScoreOne
          /\ ScoreIn(fCall.semantic_results, fOut.scored[i].doc_id) = ScoreOne
    /\ \E i \in 1..Len(fOut.scored) : fOut.scored[i].final_score = 0

ReciprocalCall == fCall # NoCall /\ fCall.strategy = "rrf"

\* the 1-based place of the chunk id in a list, 0 when the list lacks it
RankIn(results, id) ==
    IF id \in ChunkIdsOf(results)
    THEN CHOOSE i \in 1..Len(results) : ChunkIdOf(results[i]) = id
    ELSE 0

\* 1 / (k + rank) of the chunk id in a list of the call, in units of
\* 1 / fOut.unit; nothing when the list lacks it
ReciprocalIn(results, id) ==
    IF RankIn(results, id) = 0 THEN 0
    ELSE fOut.unit \div (fCall.k + RankIn(results, id))

\* the sum of 1 / (k + rank) over the lists of the call that hold the id
ReciprocalSumOf(id) ==
    ReciprocalIn(fCall.bm25_results, id) + ReciprocalIn(fCall.semantic_results, id)

\* the score of a chunk that is first in both lists: 2 / (k + 1)
FirstInBothScore == 2 * (fOut.unit \div (fCall.k + 1))

FirstInBoth(id) ==
    RankIn(fCall.bm25_results, id) = 1 /\ RankIn(fCall.semantic_results, id) = 1

FirstInOne(id) ==
    (RankIn(fCall.bm25_results, id) = 1) # (RankIn(fCall.semantic_results, id) = 1)

\* C17: in reciprocal rank fusion the score of an item is the sum of
\* 1 / (k + rank) over the lists that hold it; an item first in both lists
\* scores 2 / (k + 1), is placed first and scores more than every other
\* item; an item first in one list only scores less than 2 / (k + 1).
C17_ReciprocalRankSum ==
    ReciprocalCall =>
        /\ \A i \in 1..Len(fOut.scored) :
              fOut.scored[i].final_score = ReciprocalSumOf(ChunkIdOf(fOut.results[i]))
        /\ \A i \in 1..Len(fOut.scored) :
              LET id == ChunkIdOf(fOut.results[i])
              IN  /\ FirstInBoth(id) =>
                        /\ i = 1
                        /\ fOut.scored[i].final_score = FirstInBothScore
                        /\ \A j \in 2..Len(fOut.scored) :
                              fOut.scored[j].final_score < fOut.scored[i].final_score
                  /\ FirstInOne(id) => fOut.scored[i].final_score < FirstInBothScore
        /\ \A i, j \in 1..Len(fOut.scored) :
              i < j => fOut.scored[i].final_score >= fOut.scored[j].final_score

\* with the default k, a chunk first in both lists was placed before a
\* chunk second in both
C17_Witness ==
    /\ ReciprocalCall
    /\ fCall.k = DefaultRrfK
    /\ Len(fOut.results) = 2
    /\ FirstInBoth(ChunkIdOf(fOut.results[1]))
    /\ RankIn(fCall.bm25_results, ChunkIdOf(fOut.results[2])) = 2
    /\ RankIn(fCall.semantic_results, ChunkIdOf(fOut.results[2])) = 2

\* with the default k, a chunk first in the BM25 list and second in the
\* semantic list scored 1 / (k + 1) + 1 / (k + 2)
C17_FirstInOneReached ==
    /\ ReciprocalCall
    /\ fCall.k = DefaultRrfK
    /\ \E i \in 1..Len(fOut.scored) :
          /\ RankIn(fCall.bm25_results, fOut.scored[i].doc_id) = 1
          /\ RankIn(fCall.semantic_results, fOut.scored[i].doc_id) = 2
          /\ fOut.scored[i].final_score < FirstInBothScore

(***************************************************************************)
(* Persistence of the BM25 index: save_index() and load_index()            *)
(* (bm25_search.py)                                                        *)
(***************************************************************************)
\* the keys of index_data, in the order save_index lists them
IndexDataKeys ==
    <<"k1", "b", "corpus", "corpus_metadata", "doc_freqs", "idf", "doc_len",
      "avgdl", "num_docs">>

\* save_index: the dict index_data built from the fields of the instance
IndexData(self) ==
    [k1 |-> self.k1, b |-> self.b,
     corpus |-> self.corpus, corpus_metadata |-> self.corpus_metadata,
     doc_freqs |-> self.doc_freqs, idf |-> self.idf,
     doc_len |-> self.doc_len, avgdl |-> self.avgdl,
     num_docs |-> self.num_docs]

\* pickle.dump(index_data, f): the file holds the items of the dict, key
\* and value, in the order of the dict
PickleDump(index_data) ==
    [i \in 1..Len(IndexDataKeys) |->
        [key |-> IndexDataKeys[i], value |-> index_data[IndexDataKeys[i]]]]

\* pickle.load(f): the dict of the items the file holds
PickleLoad(file) ==
    [key \in {file[i].key : i \in 1..Len(file)} |->
        file[CHOOSE i \in 1..Len(file) : file[i].key = key].value]

\* save_index(filepath): the content of the file written
SaveIndex(self) == PickleDump(IndexData(self))

\* the instance after the assignments of a program, in order
RECURSIVE ApplyAll(_, _)
ApplyAll(self, program) ==
    IF program = <<>> THEN self
    ELSE ApplyAll(Apply(self, Head(program)), Tail(program))

\* the mutant of LoadIndex that restores the index data and leaves k1 and b
\* as the constructor set them
LoadIndexData(self, file) ==
    ApplyAll(self, SubSeq(LoadProgram(PickleLoad(file)), 3,
                          Len(LoadProgram(PickleLoad(file)))))

\* load_index(filepath) on an instance, the file existing
LoadIndex(self, file) == ApplyAll(self, LoadProgram(PickleLoad(file)))

(***************************************************************************)
(* Specification SpecPersist: an instance is indexed and saved, a fresh    *)
(* instance loads the file, and both are searched with the same arguments. *)
(***************************************************************************)
\* the k1 and b a fresh instance is constructed with: the defaults, or
\* values of the caller
FreshParameters ==
    { [k1 |-> DefaultK1, b |-> DefaultB],
      [k1 |-> [num |-> 2, den |-> 1], b |-> [num |-> 1, den |-> 2]] }

InitPersist ==
    /\ NormIdle
    /\ FusionIdle
    /\ PersistIdle
    /\ CallersIdle
    /\ GetterIdle
    /\ QdrantIdle
    /\ RerankIdle
    /\ RetrieveIdle
    /\ RebuildIdle
    /\ argsortTies \in {"ascending", "descending"}
    /\ bm25 = NewBM25(DefaultK1, DefaultB)
    /\ bResults = <<>>
    /\ bCall = NoCall
    /\ bRepeat = NoCall

\* the instance is indexed, no file being written yet
BuildIndex ==
    /\ pFile = NoCall
    /\ \E c \in IndexedCorpora :
          bm25' = Index(bm25, [i \in 1..Len(c) |-> c[i].text],
                              [i \in 1..Len(c) |-> c[i].metadata])
    /\ UNCHANGED <<argsortTies, bResults, bCall, bRepeat>>
    /\ UNCHANGED <<normVars, rerankVars, retrieveVars, rebuildVars, fusionVars, persistVars, callVars, getterVars, qdrantVars>>

\* save_index() writes the file
SaveToFile ==
    /\ pFile = NoCall
    /\ pFile' = [pending |-> TRUE, content |-> SaveIndex(bm25)]
    /\ UNCHANGED pLoaded
    /\ UNCHANGED <<normVars, bm25Vars, rerankVars, retrieveVars, rebuildVars, fusionVars, callVars, getterVars, qdrantVars>>

\* a fresh instance is constructed and load_index() reads the file into it
LoadFromFile ==
    /\ pFile # NoCall
    /\ pLoaded = NoCall
    /\ \E p \in FreshParameters :
          pLoaded' = [pending |-> TRUE, searched |-> FALSE,
                      instance |-> LoadIndex(NewBM25(p.k1, p.b), pFile.content)]
    /\ UNCHANGED pFile
    /\ UNCHANGED <<normVars, bm25Vars, rerankVars, retrieveVars, rebuildVars, fusionVars, callVars, getterVars, qdrantVars>>

\* the same search() call is made on the original and on the loaded instance
SearchBoth ==
    /\ pLoaded # NoCall
    /\ ~pLoaded.searched
    /\ \E q \in SearchQueries, k \in 1..MaxTopK, f \in SearchFilters :
          pLoaded' = [pending |-> TRUE, searched |-> TRUE,
                      instance |-> pLoaded.instance,
                      query |-> q, top_k |-> k, filters |-> f,
                      original |-> Search(bm25, q, k, f, ArgsortTies(argsortTies, 1)),
                      loaded |-> Search(pLoaded.instance, q, k, f,
                                        ArgsortTies(argsortTies, 2))]
    /\ UNCHANGED pFile
    /\ UNCHANGED <<normVars, bm25Vars, rerankVars, retrieveVars, rebuildVars, fusionVars, callVars, getterVars, qdrantVars>>

\* the file is removed and the second instance dropped
RemoveFile ==
    /\ pFile # NoCall
    /\ pFile' = NoCall
    /\ pLoaded' = NoCall
    /\ UNCHANGED <<normVars, bm25Vars, rerankVars, retrieveVars, rebuildVars, fusionVars, callVars, getterVars, qdrantVars>>

NextPersist == BuildIndex \/ SaveToFile \/ LoadFromFile \/ SearchBoth \/ RemoveFile

SpecPersist == InitPersist /\ [][NextPersist]_vars

\* C19: an instance loaded from the file save_index() wrote has the state
\* of the saved instance (k1, b, corpus, metadata, term-frequency tables,
\* IDF table, lengths, average length, document count), and returns for
\* every query the result list of the original: same ids, scores and order.
C19_LoadRestoresSavedIndex ==
    pLoaded # NoCall =>
        /\ \A i \in 1..Len(IndexDataKeys) :
              pLoaded.instance[IndexDataKeys[i]] = bm25[IndexDataKeys[i]]
        /\ pLoaded.searched => pLoaded.loaded = pLoaded.original

\* an index of three documents was saved and loaded into an instance
\* constructed with other parameters, and the same search on both returned
\* two results or more
C19_Witness ==
    /\ pLoaded # NoCall
    /\ pLoaded.searched
    /\ bm25.num_docs = 3
    /\ Len(pLoaded.original) >= 2
    /\ Len(pLoaded.loaded) >= 2
    /\ pLoaded.original[2].score < ScoreOne

(***************************************************************************)
(* Specification SpecSizing: a constructed RetrievalService answers        *)
(* retrieve() calls with every top_k the request schema accepts, nothing   *)
(* external failing.                                                       *)
(***************************************************************************)
\* RetrievalRequest.top_k: Field(default=5, ge=1, le=20)
RequestMinTopK == 1

RequestMaxTopK == 20

\* the arguments of the calls: one query that matches indexed chunks, top_k
\* absent or any accepted value, with and without the default threshold
SizingArgs ==
    [query       : { <<"a","r","m">> },
     top_k       : {None} \cup {Some(k) : k \in RequestMinTopK..RequestMaxTopK},
     category    : {None},
     language    : {None},
     source_type : {None},
     min_score   : {None, Some(0)}]

InitSizing == InitRetrieve

\* a caller calls retrieve() and the call runs to its end, every external
\* model answering
SizedCall ==
    /\ tReq = NoCall
    /\ \E args \in SizingArgs :
          /\ tReq' = [pending |-> TRUE, args |-> args, env |-> CalmEnv(svc)]
          /\ tOut' = Retrieve(svc, bm25, argsortTies, Points, args, CalmEnv(svc))
    /\ UNCHANGED
          <<svc, normVars, bm25Vars, rerankVars, rebuildVars, fusionVars, persistVars, callVars, getterVars, qdrantVars>>

NextSizing == SizedCall \/ ReturnToCaller

SpecSizing == InitSizing /\ [][NextSizing]_vars

\* the top_k of the outstanding call: the argument, else the configured one
EffectiveTopK ==
    IF tReq.args.top_k # None /\ tReq.args.top_k.value # 0
    THEN tReq.args.top_k.value
    ELSE RETRIEVAL_TOP_K

\* the service re-ranks, and searches the keyword index as well
Reranking == svc.reranker_enabled /\ svc.reranker

Hybrid == svc.hybrid_search_enabled /\ svc.bm25_search

\* candidate_k as the specification gives it
ClaimedCandidateK ==
    IF Reranking
    THEN IF EffectiveTopK * 10 > 15 THEN EffectiveTopK * 10 ELSE 15
    ELSE EffectiveTopK

\* rerank_k as the specification gives it
ClaimedRerankK ==
    IF EffectiveTopK < RERANKER_TOP_K THEN EffectiveTopK ELSE RERANKER_TOP_K

\* C21: with re-ranking enabled candidate_k = max(top_k * 10, 15) and the
\* re-ranker is asked for min(top_k, configured cap) results, otherwise
\* candidate_k = top_k; the vector search is asked for candidate_k
\* candidates, or candidate_k * 2 when hybrid keyword search is active.
C21_CandidatePoolSizes ==
    tReq # NoCall =>
        /\ \A i \in 1..Len(AskedOf("vector")) :
              AskedOf("vector")[i].top_k
                 = IF Hybrid THEN ClaimedCandidateK * 2 ELSE ClaimedCandidateK
        /\ \A i \in 1..Len(AskedOf("rerank")) :
              Reranking /\ AskedOf("rerank")[i].top_k = ClaimedRerankK
        /\ Len(AskedOf("vector")) <= 1
        /\ Len(AskedOf("rerank")) <= 1

\* a hybrid, re-ranking service ran a call with top_k 2: the vector search
\* was asked for 40 candidates and the re-ranker for 2 results
C21_Witness ==
    /\ tReq # NoCall
    /\ Hybrid /\ Reranking
    /\ EffectiveTopK = 2
    /\ AskedOf("vector") = <<Ask("vector", 40)>>
    /\ Len(AskedOf("rerank")) = 1
    /\ AskedOf("rerank")[1].top_k = 2

\* C29: for every top_k the request schema accepts and every mode, the
\* number of candidates retrieve() asks of the vector search is within the
\* range the vector search accepts, so that no call fails because of its
\* own candidate-pool sizing.
C29_PoolWithinVectorSearchRange ==
    tReq # NoCall =>
        \A i \in 1..Len(AskedOf("vector")) :
            /\ AskedOf("vector")[i].top_k >= 1
            /\ AskedOf("vector")[i].top_k <= QdrantMaxTopK

(***************************************************************************)
(* Specification SpecConcurrent: several callers run retrieve() on one     *)
(* service at the same time; a call is the sequence of its reads of the    *)
(* shared service and index (retrieval_service.py:143-263).                *)
(***************************************************************************)
\* the mutant of ServiceAfterCall in which a call that failed switches
\* re-ranking off for the service
ServiceDisablingAfterFailure(self, outcome) ==
    IF outcome.kind # "response" THEN [self EXCEPT !.reranker_enabled = FALSE]
    ELSE self

\* the service after a retrieve() call with the given outcome: retrieve()
\* assigns no attribute of self, whether it returns or raises
ServiceAfterCall(self, outcome) == self

\* the BM25 instance after a search() call: search() assigns no field
IndexAfterSearch(index, results) == index

\* the arguments of the concurrent calls: an accepted and a blank query
ConcurrentArgs ==
    [query       : { <<"a","r","m">>, <<" ">> },
     top_k       : {None},
     category    : {None},
     language    : {None},
     source_type : {None},
     min_score   : {None}]

\* the environments of the concurrent calls: nothing fails, or the embedder
\* or the scorer raises
ConcurrentEnvs(self) ==
    { CalmEnv(self),
      [CalmEnv(self) EXCEPT !.embed_raises = TRUE],
      [CalmEnv(self) EXCEPT !.scorer_raises = TRUE] }

InitConcurrent == InitRetrieve

\* retrieve, lines 143-156: the caller enters and sizes the call from the
\* mode flags; entry keeps the service and the index the call started with,
\* among the callers that were inside retrieve() then, and alone the outcome
\* of the same call running with no other
EnterRetrieve(c) ==
    /\ cCalls[c].pc = "idle"
    /\ \E args \in ConcurrentArgs, env \in ConcurrentEnvs(svc) :
          /\ args.query = <<" ">> => env = CalmEnv(svc)
          /\ cCalls' =
                [cCalls EXCEPT ![c] =
                     [pc    |-> "normalize",
                      args  |-> args,
                      env   |-> env,
                      sizes |-> Sizes(svc, args),
                      entry |-> [svc |-> svc, index |-> bm25],
                      among |-> {d \in Callers :
                                    cCalls[d].pc \notin {"idle", "done"}},
                      alone |-> Retrieve(svc, bm25, argsortTies, Points,
                                         args, env)]]
    /\ UNCHANGED <<normVars, bm25Vars, rerankVars, retrieveVars, rebuildVars>>
    /\ UNCHANGED <<fusionVars, persistVars, getterVars, qdrantVars>>

\* the outcome of steps 1 and 2 for the caller: the exception, or nothing
BeforeSearch(call) ==
    IF ~Normalize(call.args.query, RETRIEVAL_MAX_QUERY_LENGTH).ok
    THEN Failure("ValueError", <<>>, <<>>, <<>>)
    ELSE IF call.env.embed_raises
    THEN Failure("RuntimeError", <<"embed">>, <<>>, <<>>)
    ELSE [kind |-> "none"]

\* retrieve, steps 1 to 3: normalization, language, embedding and filters
NormalizeAndEmbed(c) ==
    /\ cCalls[c].pc = "normalize"
    /\ cCalls' = [cCalls EXCEPT ![c] =
          IF BeforeSearch(@).kind # "none"
          THEN [pc |-> "done", args |-> @.args, env |-> @.env,
                entry |-> @.entry, among |-> @.among,
                alone |-> @.alone,
                outcome |-> BeforeSearch(@)]
          ELSE [pc |-> "search", args |-> @.args, env |-> @.env,
                sizes |-> @.sizes, entry |-> @.entry, among |-> @.among,
                alone |-> @.alone,
                normalized |-> Normalize(@.args.query, RETRIEVAL_MAX_QUERY_LENGTH),
                language |-> ResolveLanguage(@.args.language,
                    Normalize(@.args.query,
                              RETRIEVAL_MAX_QUERY_LENGTH).detected_language)]]
    /\ UNCHANGED <<normVars, bm25Vars, rerankVars, retrieveVars, rebuildVars>>
    /\ UNCHANGED <<fusionVars, persistVars, getterVars, qdrantVars>>

\* what step 4 finds for the caller, the service and the index being read
\* when the step runs
SearchedBy(call) ==
    SearchStage(svc, bm25, argsortTies, Points, call.env,
                call.normalized.normalized, call.sizes,
                RetrievalFilters(call.args.category, call.language,
                                 call.args.source_type))

\* retrieve, step 4: the search, hybrid or semantic only
SearchStep(c) ==
    /\ cCalls[c].pc = "search"
    /\ cCalls' = [cCalls EXCEPT ![c] =
                     [pc |-> "rerank", searched |-> SearchedBy(@)] @@ @]
    /\ bm25' = IndexAfterSearch(bm25, SearchedBy(cCalls[c]))
    /\ UNCHANGED <<argsortTies, bResults, bCall, bRepeat>>
    /\ UNCHANGED <<normVars, rerankVars, retrieveVars, rebuildVars>>
    /\ UNCHANGED <<fusionVars, persistVars, getterVars, qdrantVars>>

\* the outcome of the call of the caller, the service being read when step
\* 5 runs
OutcomeOf(call) ==
    AfterSearch(svc, call.args, call.env, call.normalized, call.language,
                call.sizes, call.searched)

\* retrieve, step 5 to the end: re-ranking, formatting, and the response
\* or the exception
FinishRetrieve(c) ==
    /\ cCalls[c].pc = "rerank"
    /\ cCalls' = [cCalls EXCEPT ![c] =
                     [pc |-> "done", args |-> @.args, env |-> @.env,
                      entry |-> @.entry, among |-> @.among,
                alone |-> @.alone,
                      outcome |-> OutcomeOf(@)]]
    /\ svc' = ServiceAfterCall(svc, OutcomeOf(cCalls[c]))
    /\ UNCHANGED <<tReq, tOut>>
    /\ UNCHANGED <<normVars, bm25Vars, rerankVars, rebuildVars>>
    /\ UNCHANGED <<fusionVars, persistVars, getterVars, qdrantVars>>

\* the caller has its response or its exception
LeaveRetrieve(c) ==
    /\ cCalls[c].pc = "done"
    /\ cCalls' = [cCalls EXCEPT ![c] = IdleCaller]
    /\ UNCHANGED <<normVars, bm25Vars, rerankVars, retrieveVars, rebuildVars>>
    /\ UNCHANGED <<fusionVars, persistVars, getterVars, qdrantVars>>

NextConcurrent ==
    \E c \in Callers :
        \/ EnterRetrieve(c)
        \/ NormalizeAndEmbed(c)
        \/ SearchStep(c)
        \/ FinishRetrieve(c)
        \/ LeaveRetrieve(c)

SpecConcurrent == InitConcurrent /\ [][NextConcurrent]_vars

QDRANT_VECTOR_SIZE == 1024

\* settings.MAX_RETRIES
MAX_RETRIES == 3

\* the lengths of the query vectors handed to search()
VectorLengths == {0, QDRANT_VECTOR_SIZE - 1, QDRANT_VECTOR_SIZE, QDRANT_VECTOR_SIZE + 1}

\* the top_k values handed to search()
QdrantTopKs == {0, 1, 2, QdrantMaxTopK, QdrantMaxTopK + 1}

\* the similarity of the stored points to the query vector
QdrantSimilarity == [i \in 1..Len(Points) |-> ScoreOne - 100 * i]

\* the score_threshold handed to search(): none, or one between the
\* similarities of the first and the second point
QdrantThresholds == {None, Some(ScoreOne - 150)}

\* what search() returns when query_points answers: the formatted points
Answered(call) ==
    QdrantSearch(Points, QdrantSimilarity, call.top_k, <<>>,
                 call.score_threshold)

\* search, lines 256-266: the exception of the validation, or "none"
ValidateSearch(vector_len, top_k) ==
    IF vector_len = 0 THEN "ValueError"
    ELSE IF vector_len # QDRANT_VECTOR_SIZE THEN "ValueError"
    ELSE IF top_k < 1 \/ top_k > QdrantMaxTopK THEN "ValueError"
    ELSE "none"

\* the mutant of RetryAfter that retries after the last attempt too
RetryAfterEvery(attempt) == attempt < MAX_RETRIES

\* search, line 310: after the failed attempt (counted from 0) the loop
\* sleeps and goes on, else it raises
RetryAfter(attempt) == attempt < MAX_RETRIES - 1

\* settings.RETRY_DELAY * (attempt + 1), in units of RETRY_DELAY
WaitTime(attempt) == attempt + 1

InitQdrant ==
    /\ NormIdle
    /\ BM25Idle
    /\ RerankIdle
    /\ RetrieveIdle
    /\ RebuildIdle
    /\ FusionIdle
    /\ PersistIdle
    /\ CallersIdle
    /\ GetterIdle
    /\ QdrantIdle

\* _search_vectors calls search(): the validation runs, and the call has
\* raised or goes on to the collection check; client counts the calls made
\* to the backend, attempts keeps whether each query_points call succeeded
\* and slept the time slept between attempts
BeginQdrantSearch ==
    /\ qCall = NoCall
    /\ \E vector_len \in VectorLengths, top_k \in QdrantTopKs,
          score_threshold \in QdrantThresholds :
          /\ qCall' = [pending |-> TRUE, vector_len |-> vector_len,
                       top_k |-> top_k, score_threshold |-> score_threshold,
                       client |-> 0, attempts |-> <<>>,
                       slept |-> 0,
                       pc |-> IF ValidateSearch(vector_len, top_k) = "none"
                              THEN "collection" ELSE "ended"]
          /\ qOut' = IF ValidateSearch(vector_len, top_k) = "none" THEN NoCall
                     ELSE Raised(ValidateSearch(vector_len, top_k))
    /\ UNCHANGED <<normVars, bm25Vars, rerankVars, retrieveVars, rebuildVars>>
    /\ UNCHANGED <<fusionVars, persistVars, callVars, getterVars>>

\* search, lines 268-270: collection_exists() asks the backend; a missing
\* collection, or a backend that fails to answer, gives the empty list
CheckCollection ==
    /\ qCall # NoCall
    /\ qCall.pc = "collection"
    /\ \E exists \in BOOLEAN :
          /\ qCall' = [qCall EXCEPT !.client = @ + 1,
                                    !.pc = IF exists THEN "attempt" ELSE "ended"]
          /\ qOut' = IF exists THEN NoCall ELSE Returned(<<>>)
    /\ UNCHANGED <<normVars, bm25Vars, rerankVars, retrieveVars, rebuildVars>>
    /\ UNCHANGED <<fusionVars, persistVars, callVars, getterVars>>

\* search, lines 284-318: one pass of the retry loop; query_points answers
\* or raises
AttemptQuery ==
    /\ qCall # NoCall
    /\ qCall.pc = "attempt"
    /\ Len(qCall.attempts) < MAX_RETRIES
    /\ \E answers \in BOOLEAN :
          LET attempt == Len(qCall.attempts)
          IN  /\ qCall' = [qCall EXCEPT
                             !.client = @ + 1,
                             !.attempts = Append(@, answers),
                             !.slept = IF ~answers /\ RetryAfter(attempt)
                                       THEN @ + WaitTime(attempt) ELSE @,
                             !.pc = IF ~answers /\ RetryAfter(attempt)
                                    THEN "attempt" ELSE "ended"]
              /\ qOut' = IF answers THEN Answered(qCall)
                         ELSE IF RetryAfter(attempt) THEN NoCall
                         ELSE Raised("RuntimeError")
    /\ UNCHANGED <<normVars, bm25Vars, rerankVars, retrieveVars, rebuildVars>>
    /\ UNCHANGED <<fusionVars, persistVars, callVars, getterVars>>

\* _search_vectors, lines 299-307: the results go back to retrieve() and an
\* exception of search() is raised again as a RuntimeError, with no new call
EndSearchVectors ==
    /\ qCall # NoCall
    /\ qCall.pc = "ended"
    /\ qCall' = [qCall EXCEPT !.pc = "wrapped"]
    /\ qOut' = WrapSearchError(qOut)
    /\ UNCHANGED <<normVars, bm25Vars, rerankVars, retrieveVars, rebuildVars>>
    /\ UNCHANGED <<fusionVars, persistVars, callVars, getterVars>>

\* retrieve() has the results or the exception
DropQdrantSearch ==
    /\ qCall # NoCall
    /\ qCall.pc = "wrapped"
    /\ qCall' = NoCall
    /\ qOut' = NoCall
    /\ UNCHANGED <<normVars, bm25Vars, rerankVars, retrieveVars, rebuildVars>>
    /\ UNCHANGED <<fusionVars, persistVars, callVars, getterVars>>

NextQdrant ==
    \/ BeginQdrantSearch
    \/ CheckCollection
    \/ AttemptQuery
    \/ EndSearchVectors
    \/ DropQdrantSearch

SpecQdrant == InitQdrant /\ [][NextQdrant]_vars

\* the vector has the wrong length or top_k is out of range
Rejected == ValidateSearch(qCall.vector_len, qCall.top_k) # "none"

\* every attempt of the sequence failed
AllFailed(attempts) == \A i \in 1..Len(attempts) : ~attempts[i]

\* C24: a vector of the wrong length, or a top_k out of range, is rejected
\* with no call to the backend and no attempt; a failing query is attempted
\* at most MAX_RETRIES times: the search returns on the first attempt that
\* succeeds and raises after the last failed one.
C24_RejectsUnaskedRetriesBounded ==
    qCall # NoCall =>
        /\ Rejected =>
              /\ qCall.client = 0
              /\ qCall.attempts = <<>>
              /\ qCall.slept = 0
              /\ qCall.pc \in {"ended", "wrapped"}
              /\ qOut = Raised(IF qCall.pc = "ended" THEN "ValueError"
                               ELSE "RuntimeError")
        /\ Len(qCall.attempts) <= MAX_RETRIES
        /\ qCall.pc = "attempt" =>
              /\ AllFailed(qCall.attempts)
              /\ Len(qCall.attempts) < MAX_RETRIES
        /\ qCall.pc \in {"ended", "wrapped"} /\ qCall.attempts # <<>> =>
              /\ AllFailed(SubSeq(qCall.attempts, 1, Len(qCall.attempts) - 1))
              /\ IF qCall.attempts[Len(qCall.attempts)]
                 THEN qOut = Answered(qCall)
                 ELSE /\ Len(qCall.attempts) = MAX_RETRIES
                      /\ qOut = Raised("RuntimeError")

\* a search whose every attempt failed has raised after MAX_RETRIES of them
C24_Witness ==
    /\ qCall # NoCall
    /\ qCall.pc = "ended"
    /\ Len(qCall.attempts) = MAX_RETRIES
    /\ AllFailed(qCall.attempts)
    /\ qOut.raises

\* a vector one short of the configured size has been rejected
C24_MismatchReached ==
    /\ qCall # NoCall
    /\ qCall.vector_len = QDRANT_VECTOR_SIZE - 1
    /\ qCall.pc = "wrapped"
    /\ qOut.raises

\* a search has returned the points on its second attempt
C24_SecondAttemptReached ==
    /\ qCall # NoCall
    /\ qCall.attempts = <<FALSE, TRUE>>
    /\ qOut.results # <<>>

(***************************************************************************)
(* Specification SpecGetter: threads call the lazily constructing getters  *)
(* get_retrieval_service, get_bm25_search and get_reranker, whose          *)
(* statements interleave (retrieval_service.py:480-496,                    *)
(* bm25_search.py:420-457, reranker.py:275-307).                           *)
(***************************************************************************)
Getters == {"get_retrieval_service", "get_bm25_search", "get_reranker"}

\* the module globals _retrieval_service_instance, _bm25_instance and
\* _reranker_instance before any call: None, written 0; objects are the
\* instances constructed so far, an instance being named by its position
NoInstances == [slot |-> [g \in Getters |-> 0], objects |-> <<>>]

\* the instance a constructor call returns: RetrievalService() and
\* CrossEncoderReranker() return fully initialised, BM25(k1, b) returns
\* with an empty index that load_index is still to fill
NewInstance(g) ==
    [getter |-> g, initialised |-> g # "get_bm25_search", loaded |-> FALSE]

\* the test of every getter: if _instance is None
NeedsInstance(globals, g) == globals.slot[g] = 0

InitGetter ==
    /\ NormIdle
    /\ BM25Idle
    /\ RerankIdle
    /\ RetrieveIdle
    /\ RebuildIdle
    /\ FusionIdle
    /\ PersistIdle
    /\ CallersIdle
    /\ QdrantIdle
    /\ gGlobal = NoInstances
    /\ gThreads = [t \in Callers |-> IdleCaller]

\* a thread calls a getter and tests the global
CheckInstance(t) ==
    /\ gThreads[t].pc = "idle"
    /\ \E g \in Getters :
          gThreads' = [gThreads EXCEPT ![t] =
                          [pc |-> IF NeedsInstance(gGlobal, g) THEN "construct"
                                  ELSE "return",
                           getter |-> g]]
    /\ UNCHANGED gGlobal
    /\ UNCHANGED <<normVars, bm25Vars, rerankVars, retrieveVars, rebuildVars>>
    /\ UNCHANGED <<fusionVars, persistVars, callVars, qdrantVars>>

\* the constructor runs and returns the new instance to the thread
ConstructInstance(t) ==
    /\ gThreads[t].pc = "construct"
    /\ gGlobal' = [gGlobal EXCEPT
                      !.objects = Append(@, NewInstance(gThreads[t].getter))]
    /\ gThreads' = [gThreads EXCEPT ![t] =
                       [pc |-> "assign", getter |-> @.getter,
                        made |-> Len(gGlobal.objects) + 1]]
    /\ UNCHANGED <<normVars, bm25Vars, rerankVars, retrieveVars, rebuildVars>>
    /\ UNCHANGED <<fusionVars, persistVars, callVars, qdrantVars>>

\* the thread assigns the new instance to the global
AssignInstance(t) ==
    /\ gThreads[t].pc = "assign"
    /\ gGlobal' = [gGlobal EXCEPT !.slot[gThreads[t].getter] = gThreads[t].made]
    /\ gThreads' = [gThreads EXCEPT ![t] =
                       [pc |-> IF @.getter = "get_bm25_search" THEN "load"
                               ELSE "return",
                        getter |-> @.getter]]
    /\ UNCHANGED <<normVars, bm25Vars, rerankVars, retrieveVars, rebuildVars>>
    /\ UNCHANGED <<fusionVars, persistVars, callVars, qdrantVars>>

\* get_bm25_search, lines 449-455: load_index on the instance the global
\* holds; it fills the index, or raises and is logged
LoadInstance(t) ==
    /\ gThreads[t].pc = "load"
    /\ \E loads \in BOOLEAN :
          gGlobal' = [gGlobal EXCEPT
                         !.objects[gGlobal.slot[gThreads[t].getter]] =
                             [@ EXCEPT !.initialised = TRUE, !.loaded = loads]]
    /\ gThreads' = [gThreads EXCEPT ![t] =
                       [pc |-> "return", getter |-> @.getter]]
    /\ UNCHANGED <<normVars, bm25Vars, rerankVars, retrieveVars, rebuildVars>>
    /\ UNCHANGED <<fusionVars, persistVars, callVars, qdrantVars>>

\* return _instance: the thread receives what the global holds now
ReturnInstance(t) ==
    /\ gThreads[t].pc = "return"
    /\ gThreads' = [gThreads EXCEPT ![t] =
                       [pc |-> "done", getter |-> @.getter,
                        got |-> gGlobal.slot[@.getter]]]
    /\ UNCHANGED gGlobal
    /\ UNCHANGED <<normVars, bm25Vars, rerankVars, retrieveVars, rebuildVars>>
    /\ UNCHANGED <<fusionVars, persistVars, callVars, qdrantVars>>

\* the thread is done with the instance and may call a getter again
ReleaseInstance(t) ==
    /\ gThreads[t].pc = "done"
    /\ gThreads' = [gThreads EXCEPT ![t] = IdleCaller]
    /\ UNCHANGED gGlobal
    /\ UNCHANGED <<normVars, bm25Vars, rerankVars, retrieveVars, rebuildVars>>
    /\ UNCHANGED <<fusionVars, persistVars, callVars, qdrantVars>>

NextGetter ==
    \E t \in Callers :
        \/ CheckInstance(t)
        \/ ConstructInstance(t)
        \/ AssignInstance(t)
        \/ LoadInstance(t)
        \/ ReturnInstance(t)
        \/ ReleaseInstance(t)

SpecGetter == InitGetter /\ [][NextGetter]_vars

\* the instances the getter has constructed
ConstructedBy(g) ==
    {i \in 1..Len(gGlobal.objects) : gGlobal.objects[i].getter = g}

\* the thread has received an instance from the getter
Received(t, g) == gThreads[t].pc = "done" /\ gThreads[t].getter = g

\* C28: when several callers concurrently make the first call to a lazily
\* constructing getter, the service is constructed at most once, every
\* caller receives the same instance, and no caller receives an instance
\* that is not yet fully initialised (for get_bm25_search: before the
\* persisted index has finished loading).
C28_ConstructedOnceAndComplete ==
    \A g \in Getters :
        /\ Cardinality(ConstructedBy(g)) <= 1
        /\ \A t, u \in Callers :
              (Received(t, g) /\ Received(u, g))
                  => gThreads[t].got = gThreads[u].got
        /\ \A t \in Callers :
              Received(t, g) => gGlobal.objects[gThreads[t].got].initialised

\* every caller receives an instance the getter constructed, and an
\* instance of get_retrieval_service or get_reranker is fully initialised
\* when it is received
C28_ReceivesAnInstance ==
    \A g \in Getters, t \in Callers :
        Received(t, g) =>
            /\ gThreads[t].got \in ConstructedBy(g)
            /\ g # "get_bm25_search"
                  => gGlobal.objects[gThreads[t].got].initialised

====
